---- MODULE Spec2Model ----
(***************************************************************************)
(* Ingestion worker: the graph persistor (neo4j_storage.rs), the           *)
(* dependency graph builder (graph_builder.rs) and the job orchestrator    *)
(* (main.rs), modelled as state machines.                                  *)
(*                                                                         *)
(*   Spec        one step per call of store_graph /                        *)
(*               store_graph_incremental on the persisted graph            *)
(*   SpecWorker  one step per await of the worker loop, process_job and    *)
(*               analyze_repository                                        *)
(*   SpecConnect the two connection retry loops of main                    *)
(*   SpecShutdown the worker loop with the shutdown signal, under fairness *)
(*   SpecApply   one step per application of a function to arguments       *)
(***************************************************************************)
EXTENDS Integers, Sequences, FiniteSets, TLC

VARIABLES
    graph,      \* the committed content of the graph database
    ncalls,     \* number of persistor calls made so far
    last,       \* the persistor call that ended last: inputs, trace, outcome
    nfaults,    \* number of calls that met a database error so far
    queue,      \* analysis_queue: messages waiting in Redis
    pc,         \* position of the worker task
    cur,        \* the message process_job is working on (NoMessage when idle)
    reports,    \* every status PATCH attempted so far, in order
    outcome,    \* per popped message, what became of it
    stored,     \* the popped messages whose graph transaction committed
    handled,    \* number of messages popped so far
    tempdirs,   \* the popped messages whose clone directory exists on disk
    shutdown,   \* the AtomicBool the signal-handler task sets
    conn,       \* main's connection phase: the two retry loops
    applied     \* a function of the program applied on its own: arguments, value

vars == <<graph, ncalls, last, nfaults, queue, pc, cur, reports, outcome, stored, handled,
          tempdirs, shutdown, conn, applied>>

persistVars == <<graph, ncalls, last, nfaults>>
workerVars == <<queue, pc, cur, reports, outcome, stored, handled, tempdirs, shutdown>>
connectVars == <<conn, applied>>
\* what no step of a job but the store touches
offJob == <<persistVars, connectVars, shutdown>>

(***************************************************************************)
(* Bounds                                                                  *)
(***************************************************************************)
MaxCalls == 2
MaxFaults == 1
MaxQueue == 2

Repos == {"rA", "rB"}

PathA == "services/a.py"
PathB == "services/b.py"
Paths == {PathA, PathB}

Null == "null"

\* no function applied yet
NotApplied == [fn |-> "none"]

(***************************************************************************)
(* Sequence helpers                                                        *)
(***************************************************************************)
RECURSIVE SeqFlat(_)
SeqFlat(ss) == IF ss = <<>> THEN <<>> ELSE Head(ss) \o SeqFlat(Tail(ss))

Range(s) == {s[i] : i \in 1..Len(s)}

\* an iteration order of a HashSet
RECURSIVE SetToSeq(_)
SetToSeq(S) ==
    IF S = {} THEN <<>>
    ELSE LET x == CHOOSE y \in S : TRUE IN << x >> \o SetToSeq(S \ {x})

RECURSIVE SeqFilterIn(_, _)
SeqFilterIn(s, set) ==
    IF s = <<>> THEN <<>>
    ELSE (IF Head(s) \in set THEN <<Head(s)>> ELSE <<>>) \o SeqFilterIn(Tail(s), set)

(***************************************************************************)
(* parsers/mod.rs: ParsedFile, FunctionInfo, ClassInfo, InheritanceInfo    *)
(***************************************************************************)
FunctionInfo(name, params, calls, start_line, end_line) ==
    [name |-> name, params |-> params, return_type |-> "", calls |-> calls,
     start_line |-> start_line, end_line |-> end_line]

InheritanceInfo(name, kind) == [name |-> name, kind |-> kind]

ClassInfo(name, inheritances, methods, start_line, end_line) ==
    [name |-> name, inheritances |-> inheritances, methods |-> methods,
     start_line |-> start_line, end_line |-> end_line]

ServiceCall(target, protocol) == [target |-> target, protocol |-> protocol]

\* The text of a source file is abstracted to a revision number; parse_file
\* is the table of what the python parser extracts from each revision.
\* Revision 0 of a path means the file is absent from the working tree.
\* Revision 2 of services/b.py is text for which LanguageParser::parse_file
\* returns Err (tree-sitter yields no tree).
parse_file_fails(path, rev) == path = PathB /\ rev = 2

parse_file(path, rev) ==
    IF path = PathA /\ rev = 1 THEN
        [path |-> path, language |-> "python",
         functions |-> << FunctionInfo("f", <<"x">>, <<"g", "print">>, 1, 3) >>,
         classes |-> << ClassInfo("K", << InheritanceInfo("Base", "class"),
                                           InheritanceInfo("ABC", "class") >>,
                                  << FunctionInfo("m", <<"self">>, <<"f">>, 6, 7) >>,
                                  5, 8) >>,
         imports |-> <<"b", "requests">>,
         data_tables |-> <<"users">>,
         service_calls |-> << ServiceCall("api", "http") >>]
    ELSE IF path = PathA THEN
        [path |-> path, language |-> "python",
         functions |-> << FunctionInfo("f", <<"x">>, <<"g">>, 2, 4) >>,
         classes |-> <<>>,
         imports |-> <<"b">>,
         data_tables |-> <<>>,
         service_calls |-> <<>>]
    ELSE
        [path |-> path, language |-> "python",
         functions |-> << FunctionInfo("g", <<>>, <<>>, 1, 2) >>,
         classes |-> << ClassInfo("Base", <<>>, <<>>, 4, 5) >>,
         imports |-> <<>>,
         data_tables |-> <<"users">>,
         service_calls |-> <<>>]

(***************************************************************************)
(* graph_builder.rs: SymbolTable                                           *)
(***************************************************************************)
SymbolEntry(key, file_path, name, start_line, end_line) ==
    [key |-> key, file_path |-> file_path, name |-> name,
     start_line |-> start_line, end_line |-> end_line]

\* entries pushed into table.functions for one file, in push order
FunctionEntriesOf(file) ==
    [i \in 1..Len(file.functions) |->
        SymbolEntry(file.functions[i].name, file.path, file.functions[i].name,
                    file.functions[i].start_line, file.functions[i].end_line)]
    \o SeqFlat([c \in 1..Len(file.classes) |->
        SeqFlat([m \in 1..Len(file.classes[c].methods) |->
            LET cls == file.classes[c]
                method == cls.methods[m]
            IN << SymbolEntry(cls.name \o "." \o method.name, file.path, method.name,
                              method.start_line, method.end_line),
                  SymbolEntry(method.name, file.path, method.name,
                              method.start_line, method.end_line) >>])])

ClassEntriesOf(file) ==
    [c \in 1..Len(file.classes) |->
        SymbolEntry(file.classes[c].name, file.path, file.classes[c].name,
                    file.classes[c].start_line, file.classes[c].end_line)]

SymbolTable(parsed_files) ==
    [functions |-> SeqFlat([i \in 1..Len(parsed_files) |-> FunctionEntriesOf(parsed_files[i])]),
     classes |-> SeqFlat([i \in 1..Len(parsed_files) |-> ClassEntriesOf(parsed_files[i])])]

\* entries.get(name): the Vec stored under name, in insertion order
EntriesUnder(entries, name) ==
    LET idx == {i \in 1..Len(entries) : entries[i].key = name}
    IN [k \in 1..Cardinality(idx) |->
            entries[CHOOSE i \in idx : Cardinality({j \in idx : j < i}) = k - 1]]

\* a lookup without the preference for the current file
ResolveFirst(entries, name, current_file) ==
    LET es == EntriesUnder(entries, name)
    IN IF es = <<>> THEN <<>> ELSE << es[1] >>

\* Option<&SymbolEntry> is a sequence of at most one entry
Resolve(entries, name, current_file) ==
    LET es == EntriesUnder(entries, name)
        same == {i \in 1..Len(es) : es[i].file_path = current_file}
    IN IF es = <<>> THEN <<>>
       ELSE IF same # {} THEN << es[CHOOSE i \in same : \A j \in same : i <= j] >>
       ELSE << es[1] >>

resolve_function(table, name, current_file) == Resolve(table.functions, name, current_file)
resolve_class(table, name, current_file) == Resolve(table.classes, name, current_file)

(***************************************************************************)
(* graph_builder.rs: DependencyGraph                                       *)
(***************************************************************************)
NodeFile(path) == [kind |-> "File", file |-> path, name |-> path]
NodeClass(file, name) == [kind |-> "Class", file |-> file, name |-> name]
NodeFunction(file, name) == [kind |-> "Function", file |-> file, name |-> name]
NodeModule(name) == [kind |-> "Module", file |-> "", name |-> name]

Edge(from, to, edge_type, kind) ==
    [from |-> from, to |-> to, edge_type |-> edge_type, kind |-> kind]

\* a builder that keeps an unresolved callee as a function of the current file
add_call_edges_unresolved(caller_node, func, current_file, table) ==
    SeqFlat([i \in 1..Len(func.calls) |->
        LET callee == resolve_function(table, func.calls[i], current_file)
        IN IF callee = <<>>
           THEN << Edge(caller_node, NodeFunction(current_file, func.calls[i]),
                        "CALLS", "") >>
           ELSE << Edge(caller_node, NodeFunction(callee[1].file_path, callee[1].name),
                        "CALLS", "") >>])

add_call_edges(caller_node, func, current_file, table) ==
    SeqFlat([i \in 1..Len(func.calls) |->
        LET callee == resolve_function(table, func.calls[i], current_file)
        IN IF callee = <<>> THEN <<>>
           ELSE << Edge(caller_node, NodeFunction(callee[1].file_path, callee[1].name),
                        "CALLS", "") >>])

\* a builder that treats every parent as external
InheritTargetModule(table, inheritance, path) == NodeModule(inheritance.name)

InheritTarget(table, inheritance, path) ==
    LET parent == resolve_class(table, inheritance.name, path)
    IN IF parent = <<>> THEN NodeModule(inheritance.name)
       ELSE NodeClass(parent[1].file_path, inheritance.name)

\* the edges pushed while one file is processed, in push order
FileEdges(file, table) ==
    LET file_node == NodeFile(file.path)
    IN SeqFlat([i \in 1..Len(file.functions) |->
            LET func == file.functions[i]
                func_node == NodeFunction(file.path, func.name)
            IN << Edge(file_node, func_node, "DEFINES", "") >>
               \o add_call_edges(func_node, func, file.path, table)])
       \o SeqFlat([c \in 1..Len(file.classes) |->
            LET cls == file.classes[c]
                class_node == NodeClass(file.path, cls.name)
            IN << Edge(file_node, class_node, "DEFINES", "") >>
               \o [h \in 1..Len(cls.inheritances) |->
                     Edge(class_node, InheritTarget(table, cls.inheritances[h], file.path),
                          "INHERITS", cls.inheritances[h].kind)]
               \o SeqFlat([m \in 1..Len(cls.methods) |->
                     LET method_node == NodeFunction(file.path, cls.methods[m].name)
                     IN << Edge(class_node, method_node, "CONTAINS", "") >>
                        \o add_call_edges(method_node, cls.methods[m], file.path, table)])])
       \o [k \in 1..Len(file.imports) |->
             Edge(file_node, NodeModule(file.imports[k]), "IMPORTS", "")]

from_parsed_files(parsed_files, table) ==
    LET edges == SeqFlat([i \in 1..Len(parsed_files) |-> FileEdges(parsed_files[i], table)])
    IN [nodes |-> {NodeFile(parsed_files[i].path) : i \in 1..Len(parsed_files)}
                  \cup {edges[i].from : i \in 1..Len(edges)}
                  \cup {edges[i].to : i \in 1..Len(edges)},
        edges |-> edges]

(***************************************************************************)
(* The cloned working tree and the analyzers that read it                  *)
(***************************************************************************)
LibraryDependency(name, version, source_file) ==
    [name |-> name, version |-> version, source_file |-> source_file]

ComposeService(name, ports) == [name |-> name, ports |-> ports]

\* What a clone can contain: the revision of every source file, whether the
\* git history can be analysed, the declarations of the manifests (a
\* version-less requirement has version ""), the compose file.
Snapshot(revA, revB, git, libs, compose) ==
    [files |-> [p \in Paths |-> IF p = PathA THEN revA ELSE revB],
     git |-> git, libs |-> libs, compose |-> compose]

Snapshots ==
    { Snapshot(1, 1, TRUE,
               << LibraryDependency("requests", "2.0", "requirements.txt") >>,
               << ComposeService("api", <<"8080:8080">>) >>),
      Snapshot(2, 1, TRUE,
               << LibraryDependency("requests", "", "requirements.txt") >>,
               << ComposeService("api", <<"8080:8080">>) >>),
      Snapshot(2, 0, FALSE, <<>>, <<>>) }

\* read_dir order of the walk; the model walks the paths in this order
WalkOrder == << PathA, PathB >>

\* walk_directory: parse_file(..).ok() drops a file whose parser fails
parse_repository(tree) ==
    SeqFlat([i \in 1..Len(WalkOrder) |->
        IF tree.files[WalkOrder[i]] = 0
           \/ parse_file_fails(WalkOrder[i], tree.files[WalkOrder[i]]) THEN <<>>
        ELSE << parse_file(WalkOrder[i], tree.files[WalkOrder[i]]) >>])

\* the whole tree parsed whatever the files asked for
parse_whole_tree(tree, files) == parse_repository(tree)

\* parse_repository_subset returns Err at the first listed file whose parser
\* fails (parse_file(..)?)
parse_repository_subset_fails(tree, files) ==
    \E i \in 1..Len(files) :
        /\ files[i] \in Paths
        /\ tree.files[files[i]] # 0
        /\ parse_file_fails(files[i], tree.files[files[i]])

\* the files parse_repository_subset has pushed when it returns Ok
parse_repository_subset(tree, files) ==
    SeqFlat([i \in 1..Len(files) |->
        IF files[i] \notin Paths \/ tree.files[files[i]] = 0
           \/ parse_file_fails(files[i], tree.files[files[i]]) THEN <<>>
        ELSE << parse_file(files[i], tree.files[files[i]]) >>])

\* git_analyzer: commit_count and primary_author of a file revision
FileContribution(path, rev) ==
    [commit_count |-> rev, primary_author |-> IF rev = 1 THEN "ann@x" ELSE "bob@x"]

\* boundary_detector.rs, on the path literals of the model
extract_top_level_dir(path) == "services"
classify_architectural_layer(path) == "business_logic"

Boundary(id, name, boundary_type, path, layer, files) ==
    [id |-> id, name |-> name, boundary_type |-> boundary_type, path |-> path,
     layer |-> layer, file_count |-> Len(files), files |-> files]

PathsOf(parsed_files) == [i \in 1..Len(parsed_files) |-> parsed_files[i].path]

detect_logical_boundaries(parsed_files) ==
    LET dirs == {extract_top_level_dir(parsed_files[i].path) : i \in 1..Len(parsed_files)}
        filesOf(d) == SeqFlat([i \in 1..Len(parsed_files) |->
                         IF extract_top_level_dir(parsed_files[i].path) = d
                         THEN << parsed_files[i].path >> ELSE <<>>])
    IN IF dirs = {} THEN <<>>
       ELSE LET d == CHOOSE x \in dirs : TRUE
            IN IF Len(filesOf(d)) >= 2
               THEN << Boundary("logical_" \o d, d, "logical", d, "", filesOf(d)) >>
               ELSE <<>>

detect_architectural_boundaries(parsed_files) ==
    LET layers == {classify_architectural_layer(parsed_files[i].path) : i \in 1..Len(parsed_files)}
        filesOf(l) == SeqFlat([i \in 1..Len(parsed_files) |->
                         IF classify_architectural_layer(parsed_files[i].path) = l
                         THEN << parsed_files[i].path >> ELSE <<>>])
    IN IF layers = {} THEN <<>>
       ELSE LET l == CHOOSE x \in layers : TRUE
            IN IF l # "unknown" /\ Len(filesOf(l)) >= 2
               THEN << Boundary("architectural_" \o l, "BusinessLogic Layer", "architectural",
                                l, l, filesOf(l)) >>
               ELSE <<>>

detect_boundaries(parsed_files) ==
    detect_logical_boundaries(parsed_files) \o detect_architectural_boundaries(parsed_files)

\* communication_detector.rs: what the regex scans find in a file revision
EndpointCall(file_path, url, method, host) ==
    [file_path |-> file_path, url |-> url, method |-> method, host |-> host]
RpcCall(file_path, service_name) == [file_path |-> file_path, service_name |-> service_name]
QueueUsage(file_path, topic, direction) ==
    [file_path |-> file_path, topic |-> topic, direction |-> direction]

extract_http_calls(path, rev) ==
    IF path = PathA /\ rev = 1
    THEN << EndpointCall(path, "http://api/users", "GET", "api") >> ELSE <<>>
extract_grpc_calls(path, rev) ==
    IF path = PathB THEN << RpcCall(path, "svc") >> ELSE <<>>
extract_queue_calls(path, rev) ==
    IF path = PathA /\ rev = 1
    THEN << QueueUsage(path, "events", "Publish") >>
    ELSE IF path = PathB THEN << QueueUsage(path, "events", "Consume") >>
    ELSE <<>>

detect(tree, parsed_files) ==
    [endpoints |-> SeqFlat([i \in 1..Len(parsed_files) |->
        extract_http_calls(parsed_files[i].path, tree.files[parsed_files[i].path])]),
     rpc_services |-> SeqFlat([i \in 1..Len(parsed_files) |->
        extract_grpc_calls(parsed_files[i].path, tree.files[parsed_files[i].path])]),
     queues |-> SeqFlat([i \in 1..Len(parsed_files) |->
        extract_queue_calls(parsed_files[i].path, tree.files[parsed_files[i].path])]),
     compose_services |-> tree.compose]

(***************************************************************************)
(* main.rs analyze_repository, steps 1-6: what a job hands to the persistor *)
(***************************************************************************)
IsIncremental(opts) ==
    opts.incremental \/ opts.changed_files # <<>> \/ opts.removed_files # <<>>

JobOptions(incremental, changed_files, removed_files) ==
    [incremental |-> incremental, changed_files |-> changed_files,
     removed_files |-> removed_files]

Analysis(job_id, repo_id, tree, opts) ==
    LET parsed_files == IF IsIncremental(opts)
                        THEN parse_repository_subset(tree, opts.changed_files)
                        ELSE parse_repository(tree)
        table == SymbolTable(parsed_files)
    IN [job_id |-> job_id, repo_id |-> repo_id,
        incremental |-> IsIncremental(opts),
        changed_files |-> opts.changed_files,
        removed_files |-> opts.removed_files,
        parsed_files |-> parsed_files,
        dep_graph |-> from_parsed_files(parsed_files, table),
        git |-> IF tree.git
                THEN [p \in {q \in Paths : tree.files[q] # 0} |->
                         FileContribution(p, tree.files[p])]
                ELSE <<>>,
        has_git |-> tree.git,
        boundaries |-> detect_boundaries(parsed_files),
        libs |-> tree.libs,
        comm |-> detect(tree, parsed_files)]

(***************************************************************************)
(* The graph database: labelled nodes with properties, typed relationships *)
(* between them, and the Cypher clauses the persistor uses                 *)
(***************************************************************************)
EmptyGraph == [nodes |-> {}, edges |-> {}]

\* key is the tuple of property values of the MERGE pattern that creates
\* nodes of the label: one node per key
GNode(label, key, p) == [label |-> label, key |-> key, p |-> p]
Ref(n) == [label |-> n.label, key |-> n.key]
Rel(type, from, to, p) == [type |-> type, from |-> from, to |-> to, p |-> p]

RelProps(rtype, version, import_path) ==
    [rtype |-> rtype, version |-> version, import_path |-> import_path]
NoProps == RelProps(Null, Null, Null)

\* MATCH (n:label {..}): the nodes of the label whose properties satisfy Cond
Match(g, label, Cond(_)) == {Ref(n) : n \in {m \in g.nodes : m.label = label /\ Cond(m.p)}}

Find(g, label, key) == {n \in g.nodes : n.label = label /\ n.key = key}

\* MERGE (n:label {key}) SET every property of p
MergeSet(g, label, key, p) ==
    [g EXCEPT !.nodes = (@ \ Find(g, label, key)) \cup {GNode(label, key, p)}]

\* MERGE (n:label {key}) without SET: p holds the key properties
MergeOnly(g, label, key, p) ==
    IF Find(g, label, key) # {} THEN g
    ELSE [g EXCEPT !.nodes = @ \cup {GNode(label, key, p)}]

\* MATCH from, MATCH to, MERGE (from)-[r:type]->(to) SET r = p
MergeRel(g, type, from, to, p) ==
    [g EXCEPT !.edges =
        {r \in @ : ~(r.type = type /\ r.from \in from /\ r.to \in to)}
        \cup {Rel(type, a, b, p) : a \in from, b \in to}]

\* CREATE in place of MERGE: a second relationship between nodes that have
\* one already
MergeRelCreate(g, type, from, to, p) ==
    [g EXCEPT !.edges =
        @ \cup {Rel(type, pr[1], pr[2],
                    IF \E r \in g.edges : r.type = type /\ r.from = pr[1] /\ r.to = pr[2]
                    THEN [p EXCEPT !.import_path = "parallel"] ELSE p) :
                  pr \in from \X to}]

\* ... MERGE (from)-[r:type]->(to) ON CREATE SET r = p
MergeRelOnCreate(g, type, from, to, p) ==
    [g EXCEPT !.edges =
        @ \cup {Rel(type, pr[1], pr[2], p) :
                  pr \in {q \in from \X to :
                      ~\E r \in g.edges : r.type = type /\ r.from = q[1] /\ r.to = q[2]}}]

\* MATCH (n:label {..}) DETACH DELETE n
DetachDelete(g, label, Cond(_)) ==
    LET gone == Match(g, label, Cond)
    IN [nodes |-> {n \in g.nodes : Ref(n) \notin gone},
        edges |-> {r \in g.edges : r.from \notin gone /\ r.to \notin gone}]

\* UNWIND $rows AS row <clause>: the clause applied to every row in order
RECURSIVE Unwind(_, _, _)
Unwind(Clause(_, _), g, rows) ==
    IF rows = <<>> THEN g ELSE Unwind(Clause, Clause(g, Head(rows)), Tail(rows))

\* first occurrences of a sequence, as the `seen` HashSet filters them
RECURSIVE Dedup(_)
Dedup(s) ==
    IF s = <<>> THEN <<>>
    ELSE LET init == Dedup(SubSeq(s, 1, Len(s) - 1))
         IN IF s[Len(s)] \in Range(init) THEN init ELSE Append(init, s[Len(s)])

\* an id that leaves the file out
get_qualified_id_bare(file_path, name) == name

get_qualified_id(file_path, name) == file_path \o "::" \o name

(***************************************************************************)
(* neo4j_storage.rs: the rows each batch function builds                   *)
(***************************************************************************)
FileRows(in) ==
    [i \in 1..Len(in.parsed_files) |->
        LET f == in.parsed_files[i]
            has == in.has_git /\ f.path \in DOMAIN in.git
        IN [id |-> f.path, path |-> f.path, language |-> f.language,
            job_id |-> in.job_id, repo_id |-> in.repo_id,
            commit_count |-> IF has THEN in.git[f.path].commit_count ELSE 0,
            primary_author |-> IF has THEN in.git[f.path].primary_author ELSE ""]]

class_node_to_map(name, file, start_line, end_line, job_id, repo_id) ==
    [id |-> get_qualified_id(file, name), name |-> name, file |-> file,
     start_line |-> start_line, end_line |-> end_line,
     job_id |-> job_id, repo_id |-> repo_id]

function_node_to_map(func, file, job_id, repo_id) ==
    [id |-> get_qualified_id(file, func.name), name |-> func.name, file |-> file,
     start_line |-> func.start_line, end_line |-> func.end_line,
     params |-> func.params, return_type |-> func.return_type,
     job_id |-> job_id, repo_id |-> repo_id]

module_node_to_map(name, job_id, repo_id) ==
    [name |-> name, job_id |-> job_id, repo_id |-> repo_id]

ClassRows(in) ==
    SeqFlat([i \in 1..Len(in.parsed_files) |->
        LET f == in.parsed_files[i]
        IN [c \in 1..Len(f.classes) |->
               class_node_to_map(f.classes[c].name, f.path, f.classes[c].start_line,
                                 f.classes[c].end_line, in.job_id, in.repo_id)]])

FunctionRows(in) ==
    SeqFlat([i \in 1..Len(in.parsed_files) |->
        LET f == in.parsed_files[i]
        IN [k \in 1..Len(f.functions) |->
               function_node_to_map(f.functions[k], f.path, in.job_id, in.repo_id)]
           \o SeqFlat([c \in 1..Len(f.classes) |->
               [m \in 1..Len(f.classes[c].methods) |->
                   function_node_to_map(f.classes[c].methods[m], f.path,
                                        in.job_id, in.repo_id)]])])

ModuleRows(in) ==
    LET mods == SetToSeq({n \in in.dep_graph.nodes : n.kind = "Module"})
    IN [i \in 1..Len(mods) |-> module_node_to_map(mods[i].name, in.job_id, in.repo_id)]

LibraryRows(in) ==
    [i \in 1..Len(in.libs) |->
        [name |-> in.libs[i].name, version |-> in.libs[i].version,
         source_file |-> in.libs[i].source_file,
         job_id |-> in.job_id, repo_id |-> in.repo_id]]

BoundaryRows(in) ==
    [i \in 1..Len(in.boundaries) |->
        LET b == in.boundaries[i]
        IN [id |-> b.id, name |-> b.name, type |-> b.boundary_type, path |-> b.path,
            job_id |-> in.job_id, repo_id |-> in.repo_id,
            file_count |-> b.file_count, layer |-> b.layer]]

EdgesOfType(in, edge_type) ==
    SeqFlat([i \in 1..Len(in.dep_graph.edges) |->
        IF in.dep_graph.edges[i].edge_type = edge_type
        THEN << in.dep_graph.edges[i] >> ELSE <<>>])

\* rows of the edge batches over dep_graph: endpoints as the ids the
\* queries match on
DepEdgeRows(in, edge_type, from_kind, to_kind) ==
    LET es == EdgesOfType(in, edge_type)
        id(n) == IF n.kind = "File" \/ n.kind = "Module" THEN n.name
                 ELSE get_qualified_id(n.file, n.name)
    IN SeqFlat([i \in 1..Len(es) |->
        IF es[i].from.kind = from_kind /\ es[i].to.kind = to_kind
        THEN << [from_id |-> id(es[i].from), to_id |-> id(es[i].to),
                 repo_id |-> in.repo_id,
                 inheritance_type |-> IF es[i].kind = "" THEN "class" ELSE es[i].kind] >>
        ELSE <<>>])

BelongsToRows(in) ==
    SeqFlat([i \in 1..Len(in.boundaries) |->
        [k \in 1..Len(in.boundaries[i].files) |->
            [file_id |-> in.boundaries[i].files[k], boundary_id |-> in.boundaries[i].id,
             repo_id |-> in.repo_id]]])

\* the import literals of the model hold no '/', '.', '@' or quote
normalize_import_to_library(import_path) == << import_path >>

LibraryVersion(in, name) ==
    LET idx == {i \in 1..Len(in.libs) : in.libs[i].name = name}
    IN in.libs[CHOOSE i \in idx : \A j \in idx : j <= i].version

LibraryEdgeRows(in) ==
    SeqFlat([i \in 1..Len(in.parsed_files) |->
        LET f == in.parsed_files[i]
        IN SeqFlat([k \in 1..Len(f.imports) |->
            LET lib == normalize_import_to_library(f.imports[k])
            IN IF lib # <<>> /\ \E d \in Range(in.libs) : d.name = lib[1]
               THEN << [file_path |-> f.path, library_name |-> lib[1],
                        library_version |-> LibraryVersion(in, lib[1]),
                        repo_id |-> in.repo_id] >>
               ELSE <<>>])])

TableEdgeRows(in) ==
    SeqFlat([i \in 1..Len(in.parsed_files) |->
        [k \in 1..Len(in.parsed_files[i].data_tables) |->
            [file_path |-> in.parsed_files[i].path,
             table_name |-> in.parsed_files[i].data_tables[k],
             repo_id |-> in.repo_id]]])

TableRows(in) ==
    LET names == Dedup([i \in 1..Len(TableEdgeRows(in)) |-> TableEdgeRows(in)[i].table_name])
    IN [i \in 1..Len(names) |-> [name |-> names[i], repo_id |-> in.repo_id]]

ServiceEdgeRows(in) ==
    SeqFlat([i \in 1..Len(in.parsed_files) |->
        [k \in 1..Len(in.parsed_files[i].service_calls) |->
            [file_path |-> in.parsed_files[i].path,
             service_name |-> in.parsed_files[i].service_calls[k].target,
             service_protocol |-> in.parsed_files[i].service_calls[k].protocol,
             repo_id |-> in.repo_id]]])

ServiceRows(in) ==
    Dedup([i \in 1..Len(ServiceEdgeRows(in)) |->
        [name |-> ServiceEdgeRows(in)[i].service_name,
         protocol |-> ServiceEdgeRows(in)[i].service_protocol,
         repo_id |-> in.repo_id]])

EndpointEdgeRows(in) ==
    [i \in 1..Len(in.comm.endpoints) |->
        [file_path |-> in.comm.endpoints[i].file_path, url |-> in.comm.endpoints[i].url,
         method |-> in.comm.endpoints[i].method, repo_id |-> in.repo_id]]

\* the first endpoint of every (method, url) gives the host
EndpointRows(in) ==
    LET keys == Dedup([i \in 1..Len(in.comm.endpoints) |->
                    << in.comm.endpoints[i].method, in.comm.endpoints[i].url >>])
        first(k) == in.comm.endpoints[CHOOSE i \in 1..Len(in.comm.endpoints) :
                        /\ << in.comm.endpoints[i].method, in.comm.endpoints[i].url >> = k
                        /\ \A j \in 1..(i - 1) :
                             << in.comm.endpoints[j].method, in.comm.endpoints[j].url >> # k]
    IN [i \in 1..Len(keys) |->
        [url |-> keys[i][2], method |-> keys[i][1], host |-> first(keys[i]).host,
         repo_id |-> in.repo_id]]

RpcEdgeRows(in) ==
    [i \in 1..Len(in.comm.rpc_services) |->
        [file_path |-> in.comm.rpc_services[i].file_path,
         service_name |-> in.comm.rpc_services[i].service_name, repo_id |-> in.repo_id]]

RpcRows(in) ==
    Dedup([i \in 1..Len(in.comm.rpc_services) |->
        [name |-> in.comm.rpc_services[i].service_name, repo_id |-> in.repo_id]])

QueueRows(in) ==
    Dedup([i \in 1..Len(in.comm.queues) |->
        [topic |-> in.comm.queues[i].topic, repo_id |-> in.repo_id]])

QueueEdgeRows(in, direction) ==
    SeqFlat([i \in 1..Len(in.comm.queues) |->
        IF in.comm.queues[i].direction = direction
        THEN << [file_path |-> in.comm.queues[i].file_path,
                 topic |-> in.comm.queues[i].topic, repo_id |-> in.repo_id] >>
        ELSE <<>>])

ComposeServiceRows(in) ==
    [i \in 1..Len(in.comm.compose_services) |->
        [name |-> in.comm.compose_services[i].name,
         ports |-> in.comm.compose_services[i].ports, repo_id |-> in.repo_id]]

\* host.contains(service_name) on the host and service literals of the model
host_contains(host, service_name) == host = service_name

EndpointServiceRows(in) ==
    SeqFlat([i \in 1..Len(in.comm.endpoints) |->
        LET e == in.comm.endpoints[i]
            names == SetToSeq({c.name : c \in Range(in.comm.compose_services)})
        IN SeqFlat([k \in 1..Len(names) |->
            IF e.host # "" /\ host_contains(e.host, names[k])
            THEN << [url |-> e.url, method |-> e.method, service_name |-> names[k],
                     repo_id |-> in.repo_id] >>
            ELSE <<>>])])

\* Path::file_stem and the file_name of Path::parent, on the model's paths
file_stem(path) == IF path = PathA THEN "a" ELSE "b"
parent_name(path) == "services"

module_to_files(parsed_files, module) ==
    SeqFlat([i \in 1..Len(parsed_files) |->
        (IF file_stem(parsed_files[i].path) = module THEN << parsed_files[i].path >> ELSE <<>>)
        \o (IF parent_name(parsed_files[i].path) = module
            THEN << parsed_files[i].path >> ELSE <<>>)])

FileDependencyRows(in) ==
    SeqFlat([i \in 1..Len(in.parsed_files) |->
        LET f == in.parsed_files[i]
        IN SeqFlat([k \in 1..Len(f.imports) |->
            LET resolved_files == SetToSeq(Range(module_to_files(in.parsed_files, f.imports[k])))
            IN SeqFlat([t \in 1..Len(resolved_files) |->
                IF resolved_files[t] # f.path
                THEN << [source_file |-> f.path, target_file |-> resolved_files[t],
                         import_path |-> f.imports[k], repo_id |-> in.repo_id] >>
                ELSE <<>>])])])

(***************************************************************************)
(* neo4j_storage.rs: the queries of each batch function, applied to the    *)
(* graph as the open transaction sees it                                   *)
(***************************************************************************)
FileAt(g, path, repo_id) ==
    Match(g, "File", LAMBDA p : p.path = path /\ p.repo_id = repo_id)
WithId(g, label, id, repo_id) ==
    Match(g, label, LAMBDA p : p.id = id /\ p.repo_id = repo_id)
Named(g, label, name, repo_id) ==
    Match(g, label, LAMBDA p : p.name = name /\ p.repo_id = repo_id)

create_job_node(g, in, now) ==
    MergeSet(g, "Job", << in.job_id, in.repo_id >>,
             [id |-> in.job_id, repo_id |-> in.repo_id,
              status |-> "COMPLETED", timestamp |-> now])

batch_insert_file_nodes(g, in) ==
    Unwind(LAMBDA h, node : MergeSet(h, "File", << node.id >>, node), g, FileRows(in))

batch_insert_class_nodes(g, in) ==
    Unwind(LAMBDA h, node : MergeSet(h, "Class", << node.id >>, node), g, ClassRows(in))

batch_insert_function_nodes(g, in) ==
    Unwind(LAMBDA h, node : MergeSet(h, "Function", << node.id >>, node), g, FunctionRows(in))

batch_insert_module_nodes(g, in) ==
    Unwind(LAMBDA h, node : MergeSet(h, "Module", << node.name >>, node), g, ModuleRows(in))

batch_insert_boundary_nodes(g, in) ==
    Unwind(LAMBDA h, node : MergeSet(h, "Boundary", << node.id >>, node), g, BoundaryRows(in))

\* SET l.version = node.version whatever the row carries
batch_insert_library_nodes_overwrite(g, in) ==
    Unwind(LAMBDA h, node : MergeSet(h, "Library", << node.name, node.repo_id >>, node),
           g, LibraryRows(in))

\* l.version keeps its value (null on a node just created) when the row
\* carries no version
batch_insert_library_nodes(g, in) ==
    Unwind(LAMBDA h, node :
             LET old == Find(h, "Library", << node.name, node.repo_id >>)
                 kept == IF old = {} THEN Null ELSE (CHOOSE n \in old : TRUE).p.version
             IN MergeSet(h, "Library", << node.name, node.repo_id >>,
                         [node EXCEPT !.version = IF node.version # "" THEN node.version
                                                  ELSE kept]),
           g, LibraryRows(in))

batch_insert_defines_edges(g, in) ==
    LET file_to_class == DepEdgeRows(in, "DEFINES", "File", "Class")
        file_to_func == DepEdgeRows(in, "DEFINES", "File", "Function")
        g1 == Unwind(LAMBDA h, edge :
                  MergeRelOnCreate(h, "DEFINES", FileAt(h, edge.from_id, edge.repo_id),
                                   WithId(h, "Class", edge.to_id, edge.repo_id), NoProps),
                g, file_to_class)
    IN Unwind(LAMBDA h, edge :
                  MergeRelOnCreate(h, "DEFINES", FileAt(h, edge.from_id, edge.repo_id),
                                   WithId(h, "Function", edge.to_id, edge.repo_id), NoProps),
              g1, file_to_func)

batch_insert_contains_edges(g, in) ==
    Unwind(LAMBDA h, edge :
               MergeRelOnCreate(h, "CONTAINS", WithId(h, "Class", edge.from_id, edge.repo_id),
                                WithId(h, "Function", edge.to_id, edge.repo_id), NoProps),
           g, DepEdgeRows(in, "CONTAINS", "Class", "Function"))

batch_insert_calls_edges(g, in) ==
    Unwind(LAMBDA h, edge :
               MergeRelOnCreate(h, "CALLS", WithId(h, "Function", edge.from_id, edge.repo_id),
                                WithId(h, "Function", edge.to_id, edge.repo_id), NoProps),
           g, DepEdgeRows(in, "CALLS", "Function", "Function"))

batch_insert_imports_edges(g, in) ==
    Unwind(LAMBDA h, edge :
               MergeRelOnCreate(h, "IMPORTS", FileAt(h, edge.from_id, edge.repo_id),
                                Named(h, "Module", edge.to_id, edge.repo_id), NoProps),
           g, DepEdgeRows(in, "IMPORTS", "File", "Module"))

batch_insert_inherits_edges(g, in) ==
    LET class_to_class == DepEdgeRows(in, "INHERITS", "Class", "Class")
        class_to_module == DepEdgeRows(in, "INHERITS", "Class", "Module")
        g1 == Unwind(LAMBDA h, edge :
                  MergeRel(h, "INHERITS", WithId(h, "Class", edge.from_id, edge.repo_id),
                           WithId(h, "Class", edge.to_id, edge.repo_id),
                           RelProps(edge.inheritance_type, Null, Null)),
                g, class_to_class)
    IN Unwind(LAMBDA h, edge :
                  MergeRel(h, "INHERITS", WithId(h, "Class", edge.from_id, edge.repo_id),
                           Named(h, "Module", edge.to_id, edge.repo_id),
                           RelProps(edge.inheritance_type, Null, Null)),
              g1, class_to_module)

batch_insert_belongs_to_edges(g, in) ==
    Unwind(LAMBDA h, edge :
               MergeRelOnCreate(h, "BELONGS_TO", WithId(h, "File", edge.file_id, edge.repo_id),
                                WithId(h, "Boundary", edge.boundary_id, edge.repo_id), NoProps),
           g, BelongsToRows(in))

batch_insert_library_edges(g, in) ==
    Unwind(LAMBDA h, edge :
               MergeRel(h, "DEPENDS_ON", FileAt(h, edge.file_path, edge.repo_id),
                        Named(h, "Library", edge.library_name, edge.repo_id),
                        RelProps("library", edge.library_version, Null)),
           g, LibraryEdgeRows(in))

batch_insert_table_nodes(g, in) ==
    Unwind(LAMBDA h, node : MergeOnly(h, "Table", << node.name, node.repo_id >>, node),
           g, TableRows(in))

batch_insert_table_edges(g, in) ==
    Unwind(LAMBDA h, edge :
               MergeRelOnCreate(h, "USES_TABLE", FileAt(h, edge.file_path, edge.repo_id),
                                Named(h, "Table", edge.table_name, edge.repo_id), NoProps),
           g, TableEdgeRows(in))

batch_insert_service_nodes(g, in) ==
    Unwind(LAMBDA h, node :
               MergeOnly(h, "Service", << node.name, node.protocol, node.repo_id >>, node),
           g, ServiceRows(in))

batch_insert_service_edges(g, in) ==
    Unwind(LAMBDA h, edge :
               MergeRelOnCreate(h, "CALLS_SERVICE", FileAt(h, edge.file_path, edge.repo_id),
                   Match(h, "Service", LAMBDA p : /\ p.name = edge.service_name
                                                  /\ p.protocol = edge.service_protocol
                                                  /\ p.repo_id = edge.repo_id),
                   NoProps),
           g, ServiceEdgeRows(in))

EndpointAt(g, url, method, repo_id) ==
    Match(g, "Endpoint", LAMBDA p : p.url = url /\ p.method = method /\ p.repo_id = repo_id)

batch_insert_endpoint_nodes(g, in) ==
    Unwind(LAMBDA h, node :
               MergeSet(h, "Endpoint", << node.url, node.method, node.repo_id >>, node),
           g, EndpointRows(in))

batch_insert_endpoint_edges(g, in) ==
    Unwind(LAMBDA h, edge :
               MergeRelOnCreate(h, "CALLS_ENDPOINT", FileAt(h, edge.file_path, edge.repo_id),
                                EndpointAt(h, edge.url, edge.method, edge.repo_id), NoProps),
           g, EndpointEdgeRows(in))

batch_insert_rpc_nodes(g, in) ==
    Unwind(LAMBDA h, node : MergeOnly(h, "RpcService", << node.name, node.repo_id >>, node),
           g, RpcRows(in))

batch_insert_rpc_edges(g, in) ==
    Unwind(LAMBDA h, edge :
               MergeRelOnCreate(h, "CALLS_RPC", FileAt(h, edge.file_path, edge.repo_id),
                                Named(h, "RpcService", edge.service_name, edge.repo_id), NoProps),
           g, RpcEdgeRows(in))

QueueAt(g, topic, repo_id) ==
    Match(g, "MessageQueue", LAMBDA p : p.topic = topic /\ p.repo_id = repo_id)

batch_insert_queue_nodes(g, in) ==
    Unwind(LAMBDA h, node : MergeOnly(h, "MessageQueue", << node.topic, node.repo_id >>, node),
           g, QueueRows(in))

batch_insert_queue_edges(g, in) ==
    LET g1 == Unwind(LAMBDA h, edge :
                  MergeRelOnCreate(h, "PUBLISHES_TO", FileAt(h, edge.file_path, edge.repo_id),
                                   QueueAt(h, edge.topic, edge.repo_id), NoProps),
                g, QueueEdgeRows(in, "Publish"))
    IN Unwind(LAMBDA h, edge :
                  MergeRelOnCreate(h, "CONSUMES_FROM", FileAt(h, edge.file_path, edge.repo_id),
                                   QueueAt(h, edge.topic, edge.repo_id), NoProps),
              g1, QueueEdgeRows(in, "Consume"))

batch_insert_compose_service_nodes(g, in) ==
    Unwind(LAMBDA h, node :
               MergeSet(h, "ComposeService", << node.name, node.repo_id >>, node),
           g, ComposeServiceRows(in))

batch_insert_endpoint_service_edges(g, in) ==
    Unwind(LAMBDA h, edge :
               MergeRelOnCreate(h, "EXPOSED_BY",
                                EndpointAt(h, edge.url, edge.method, edge.repo_id),
                                Named(h, "ComposeService", edge.service_name, edge.repo_id),
                                NoProps),
           g, EndpointServiceRows(in))

batch_insert_file_dependencies(g, in) ==
    Unwind(LAMBDA h, edge :
               MergeRelOnCreate(h, "DEPENDS_ON", FileAt(h, edge.source_file, edge.repo_id),
                                FileAt(h, edge.target_file, edge.repo_id),
                                RelProps(Null, Null, edge.import_path)),
           g, FileDependencyRows(in))

\* only the File query of delete_file_nodes
delete_file_nodes_only(g, repo_id, files) ==
    DetachDelete(g, "File", LAMBDA p : p.path \in Range(files) /\ p.repo_id = repo_id)

\* the three DETACH DELETE queries, one after the other
delete_file_nodes(g, repo_id, files) ==
    LET g1 == DetachDelete(g, "File", LAMBDA p : p.path \in Range(files) /\ p.repo_id = repo_id)
        g2 == DetachDelete(g1, "Class", LAMBDA p : p.file \in Range(files) /\ p.repo_id = repo_id)
    IN DetachDelete(g2, "Function", LAMBDA p : p.file \in Range(files) /\ p.repo_id = repo_id)

(***************************************************************************)
(* neo4j_storage.rs: execute_batch_operations and the two transactions     *)
(***************************************************************************)
\* the edge batches over dep_graph ahead of the node batches
BatchOpsEdgesFirst ==
    << "create_job_node", "batch_insert_defines_edges", "batch_insert_contains_edges",
       "batch_insert_calls_edges", "batch_insert_imports_edges",
       "batch_insert_inherits_edges", "batch_insert_file_nodes",
       "batch_insert_class_nodes", "batch_insert_function_nodes",
       "batch_insert_module_nodes", "batch_insert_boundary_nodes",
       "batch_insert_library_nodes", "batch_insert_belongs_to_edges",
       "batch_insert_library_edges", "batch_insert_table_nodes",
       "batch_insert_table_edges", "batch_insert_service_nodes",
       "batch_insert_service_edges", "batch_insert_endpoint_nodes",
       "batch_insert_endpoint_edges", "batch_insert_rpc_nodes",
       "batch_insert_rpc_edges", "batch_insert_queue_nodes",
       "batch_insert_queue_edges", "batch_insert_compose_service_nodes",
       "batch_insert_endpoint_service_edges", "batch_insert_file_dependencies" >>

BatchOps ==
    << "create_job_node", "batch_insert_file_nodes", "batch_insert_class_nodes",
       "batch_insert_function_nodes", "batch_insert_module_nodes",
       "batch_insert_boundary_nodes", "batch_insert_library_nodes",
       "batch_insert_defines_edges", "batch_insert_contains_edges",
       "batch_insert_calls_edges", "batch_insert_imports_edges",
       "batch_insert_inherits_edges", "batch_insert_belongs_to_edges",
       "batch_insert_library_edges", "batch_insert_table_nodes",
       "batch_insert_table_edges", "batch_insert_service_nodes",
       "batch_insert_service_edges", "batch_insert_endpoint_nodes",
       "batch_insert_endpoint_edges", "batch_insert_rpc_nodes",
       "batch_insert_rpc_edges", "batch_insert_queue_nodes",
       "batch_insert_queue_edges", "batch_insert_compose_service_nodes",
       "batch_insert_endpoint_service_edges", "batch_insert_file_dependencies" >>

ApplyOp(op, g, in, now) ==
    CASE op = "create_job_node" -> create_job_node(g, in, now)
      [] op = "batch_insert_file_nodes" -> batch_insert_file_nodes(g, in)
      [] op = "batch_insert_class_nodes" -> batch_insert_class_nodes(g, in)
      [] op = "batch_insert_function_nodes" -> batch_insert_function_nodes(g, in)
      [] op = "batch_insert_module_nodes" -> batch_insert_module_nodes(g, in)
      [] op = "batch_insert_boundary_nodes" -> batch_insert_boundary_nodes(g, in)
      [] op = "batch_insert_library_nodes" -> batch_insert_library_nodes(g, in)
      [] op = "batch_insert_defines_edges" -> batch_insert_defines_edges(g, in)
      [] op = "batch_insert_contains_edges" -> batch_insert_contains_edges(g, in)
      [] op = "batch_insert_calls_edges" -> batch_insert_calls_edges(g, in)
      [] op = "batch_insert_imports_edges" -> batch_insert_imports_edges(g, in)
      [] op = "batch_insert_inherits_edges" -> batch_insert_inherits_edges(g, in)
      [] op = "batch_insert_belongs_to_edges" -> batch_insert_belongs_to_edges(g, in)
      [] op = "batch_insert_library_edges" -> batch_insert_library_edges(g, in)
      [] op = "batch_insert_table_nodes" -> batch_insert_table_nodes(g, in)
      [] op = "batch_insert_table_edges" -> batch_insert_table_edges(g, in)
      [] op = "batch_insert_service_nodes" -> batch_insert_service_nodes(g, in)
      [] op = "batch_insert_service_edges" -> batch_insert_service_edges(g, in)
      [] op = "batch_insert_endpoint_nodes" -> batch_insert_endpoint_nodes(g, in)
      [] op = "batch_insert_endpoint_edges" -> batch_insert_endpoint_edges(g, in)
      [] op = "batch_insert_rpc_nodes" -> batch_insert_rpc_nodes(g, in)
      [] op = "batch_insert_rpc_edges" -> batch_insert_rpc_edges(g, in)
      [] op = "batch_insert_queue_nodes" -> batch_insert_queue_nodes(g, in)
      [] op = "batch_insert_queue_edges" -> batch_insert_queue_edges(g, in)
      [] op = "batch_insert_compose_service_nodes" -> batch_insert_compose_service_nodes(g, in)
      [] op = "batch_insert_endpoint_service_edges" -> batch_insert_endpoint_service_edges(g, in)
      [] op = "batch_insert_file_dependencies" -> batch_insert_file_dependencies(g, in)

\* a batch function sends a query, and so can return an error, only when it
\* has a row to send; create_job_node always sends one
SendsQuery(op, in) ==
    CASE op = "create_job_node" -> TRUE
      [] op = "batch_insert_file_nodes" -> FileRows(in) # <<>>
      [] op = "batch_insert_class_nodes" -> ClassRows(in) # <<>>
      [] op = "batch_insert_function_nodes" -> FunctionRows(in) # <<>>
      [] op = "batch_insert_module_nodes" -> ModuleRows(in) # <<>>
      [] op = "batch_insert_boundary_nodes" -> BoundaryRows(in) # <<>>
      [] op = "batch_insert_library_nodes" -> LibraryRows(in) # <<>>
      [] op = "batch_insert_defines_edges" -> EdgesOfType(in, "DEFINES") # <<>>
      [] op = "batch_insert_contains_edges" -> EdgesOfType(in, "CONTAINS") # <<>>
      [] op = "batch_insert_calls_edges" -> EdgesOfType(in, "CALLS") # <<>>
      [] op = "batch_insert_imports_edges" -> EdgesOfType(in, "IMPORTS") # <<>>
      [] op = "batch_insert_inherits_edges" -> EdgesOfType(in, "INHERITS") # <<>>
      [] op = "batch_insert_belongs_to_edges" -> BelongsToRows(in) # <<>>
      [] op = "batch_insert_library_edges" -> LibraryEdgeRows(in) # <<>>
      [] op = "batch_insert_table_nodes" -> TableRows(in) # <<>>
      [] op = "batch_insert_table_edges" -> TableEdgeRows(in) # <<>>
      [] op = "batch_insert_service_nodes" -> ServiceRows(in) # <<>>
      [] op = "batch_insert_service_edges" -> ServiceEdgeRows(in) # <<>>
      [] op = "batch_insert_endpoint_nodes" -> EndpointRows(in) # <<>>
      [] op = "batch_insert_endpoint_edges" -> EndpointEdgeRows(in) # <<>>
      [] op = "batch_insert_rpc_nodes" -> RpcRows(in) # <<>>
      [] op = "batch_insert_rpc_edges" -> RpcEdgeRows(in) # <<>>
      [] op = "batch_insert_queue_nodes" -> QueueRows(in) # <<>>
      [] op = "batch_insert_queue_edges" -> in.comm.queues # <<>>
      [] op = "batch_insert_compose_service_nodes" -> ComposeServiceRows(in) # <<>>
      [] op = "batch_insert_endpoint_service_edges" -> EndpointServiceRows(in) # <<>>
      [] op = "batch_insert_file_dependencies" -> FileDependencyRows(in) # <<>>

\* the graph the transaction sees before each batch function of ops, and
\* after the last one
RECURSIVE Steps(_, _, _, _)
Steps(ops, g, in, now) ==
    IF ops = <<>> THEN << g >>
    ELSE << g >> \o Steps(Tail(ops), ApplyOp(Head(ops), g, in, now), in, now)

IndexOf(ops, op) == CHOOSE i \in 1..Len(ops) : ops[i] = op

\* A fault names the first database call that returns an error ("none" when
\* every call succeeds) and tells whether txn.rollback() would fail too.
Fault(at, rollback_fails) == [at |-> at, rollback_fails |-> rollback_fails]
NoFault == Fault("none", FALSE)

\* What a call of the persistor leaves behind: the result it returns, the
\* database calls it made, the end of its transaction, the committed graph
\* before and after, the graph the transaction had written when it ended.
CallRecord(mode, in, fault, trace, result, error, txn, before, work, after) ==
    [mode |-> mode, in |-> in, fault |-> fault, trace |-> trace, result |-> result,
     error |-> error, txn |-> txn, before |-> before, work |-> work, after |-> after]

\* execute_batch_operations: the graphs the transaction goes through, one
\* before each batch function and one after the last
execute_batch_operations(g, in, now) == Steps(BatchOps, g, in, now)

\* the Err arm without txn.rollback(): what the transaction wrote up to the
\* failing batch stays
TransactKeepsWrites(mode, in, fault, prefix, g0, steps) ==
    IF fault.at \in Range(BatchOps) THEN
        LET k == IndexOf(BatchOps, fault.at)
        IN CallRecord(mode, in, fault, prefix \o SubSeq(BatchOps, 1, k), "Err", fault.at,
                      "open", g0, steps[k], steps[k])
    ELSE IF fault.at = "commit" THEN
        CallRecord(mode, in, fault, prefix \o BatchOps \o << "commit" >>, "Err", "commit",
                   "commit_failed", g0, steps[Len(BatchOps) + 1], g0)
    ELSE
        CallRecord(mode, in, fault, prefix \o BatchOps \o << "commit" >>, "Ok", "",
                   "committed", g0, steps[Len(BatchOps) + 1], steps[Len(BatchOps) + 1])

\* the match on the result of execute_batch_operations, shared by the two
\* entry points; g0 is the committed graph, steps the run of the batch
\* functions, of which the fault tells how far it got
Transact(mode, in, fault, prefix, g0, steps) ==
    IF fault.at \in Range(BatchOps) THEN
        LET k == IndexOf(BatchOps, fault.at)
        IN CallRecord(mode, in, fault,
                      prefix \o SubSeq(BatchOps, 1, k) \o << "rollback" >>, "Err",
                      IF fault.rollback_fails THEN "rollback" ELSE fault.at,
                      IF fault.rollback_fails THEN "rollback_failed" ELSE "rolled_back",
                      g0, steps[k], g0)
    ELSE IF fault.at = "commit" THEN
        CallRecord(mode, in, fault, prefix \o BatchOps \o << "commit" >>, "Err", "commit",
                   "commit_failed", g0, steps[Len(BatchOps) + 1], g0)
    ELSE
        CallRecord(mode, in, fault, prefix \o BatchOps \o << "commit" >>, "Ok", "",
                   "committed", g0, steps[Len(BatchOps) + 1], steps[Len(BatchOps) + 1])

\* files_to_remove: changed then removed, sorted, deduplicated
SortedPaths == << PathA, PathB >>
files_to_remove(in) ==
    SeqFilterIn(SortedPaths, Range(in.changed_files) \cup Range(in.removed_files))

\* the faults a call with these inputs can meet
Faults(in, incremental) ==
    { NoFault, Fault("start_txn", FALSE), Fault("commit", FALSE) }
    \cup { Fault(BatchOps[i], rf) : i \in {k \in 1..Len(BatchOps) : SendsQuery(BatchOps[k], in)},
                                     rf \in BOOLEAN }
    \cup (IF incremental /\ files_to_remove(in) # <<>>
          THEN { Fault("delete_file_nodes", FALSE) } ELSE {})

\* store_graph: the ways a call on the committed graph g can end, one for
\* each fault it can meet
store_graph(g, in, now) ==
    { IF fault.at = "start_txn"
      THEN CallRecord("full", in, fault, << "start_txn" >>, "Err", "start_txn", "none", g, g, g)
      ELSE Transact("full", in, fault, << "start_txn" >>, g, steps) :
        steps \in { execute_batch_operations(g, in, now) }, fault \in Faults(in, FALSE) }

\* store_graph_incremental, likewise
store_graph_incremental(g, in, now) ==
    { IF fault.at = "start_txn"
      THEN CallRecord("incremental", in, fault, << "start_txn" >>, "Err", "start_txn",
                      "none", g, g, g)
      ELSE IF fault.at = "delete_file_nodes"
      THEN \* the ? of line 277 returns with the transaction neither committed
           \* nor rolled back
           CallRecord("incremental", in, fault, << "start_txn", "delete_file_nodes" >>,
                      "Err", "delete_file_nodes", "open", g, g, g)
      ELSE Transact("incremental", in, fault, << "start_txn", "delete_file_nodes" >>, g, steps) :
        steps \in { execute_batch_operations(
                        delete_file_nodes(g, in.repo_id, files_to_remove(in)), in, now) },
        fault \in Faults(in, TRUE) }

(***************************************************************************)
(* main: the connection phase, connect_redis_with_retry followed by        *)
(* connect_neo4j_with_retry, one loop iteration per step                   *)
(***************************************************************************)
MaxRetries == 4

\* the max_retries main passes to both functions
MainMaxRetries == 4

RECURSIVE Pow2(_)
Pow2(n) == IF n = 0 THEN 1 ELSE 2 * Pow2(n - 1)

\* a linear backoff in place of the exponential one
wait_time_linear(attempt) == attempt

\* 2u64.pow(attempt - 1)
wait_time(attempt) == Pow2(attempt - 1)

\* one call of a retry function: attempts made so far, the sleeps taken in
\* seconds, and what it returned
Connector(max_retries) ==
    [max_retries |-> max_retries, attempt |-> 0, waits |-> <<>>, result |-> "pending"]

\* a loop that gives up one attempt later
retry_iteration_one_more(r, ok) ==
    IF r.attempt > r.max_retries THEN [r EXCEPT !.result = "Err"]
    ELSE LET attempt == r.attempt + 1
         IN IF ok THEN [r EXCEPT !.attempt = attempt, !.result = "Ok"]
            ELSE IF attempt < r.max_retries + 1
            THEN [r EXCEPT !.attempt = attempt,
                           !.waits = Append(@, wait_time(attempt))]
            ELSE [r EXCEPT !.attempt = attempt, !.result = "Err"]

\* one iteration of `for attempt in 1..=max_retries`, or the Err after the
\* loop when there is no iteration left
retry_iteration(r, ok) ==
    IF r.attempt >= r.max_retries THEN [r EXCEPT !.result = "Err"]
    ELSE LET attempt == r.attempt + 1
         IN IF ok THEN [r EXCEPT !.attempt = attempt, !.result = "Ok"]
            ELSE IF attempt < r.max_retries
            THEN [r EXCEPT !.attempt = attempt,
                           !.waits = Append(@, wait_time(attempt))]
            ELSE [r EXCEPT !.attempt = attempt, !.result = "Err"]

\* main.rs 242-257: `?` on either function ends the process
StageAfter(stage, r) ==
    IF r.result = "pending" THEN stage
    ELSE IF r.result = "Err" THEN "fatal"
    ELSE IF stage = "redis" THEN "neo4j" ELSE "connected"

Connected ==
    [stage |-> "connected",
     redis |-> [Connector(MainMaxRetries) EXCEPT !.attempt = 1, !.result = "Ok"],
     neo4j |-> [Connector(MainMaxRetries) EXCEPT !.attempt = 1, !.result = "Ok"]]

(***************************************************************************)
(* Spec: the persistor called job after job on one database.  A call that  *)
(* returns an error ends with the committed graph it started from, which   *)
(* the calls before it reach without the error; a behaviour is followed up *)
(* to MaxCalls calls and up to its MaxFaults-th failed call.               *)
(***************************************************************************)
JobIds == {"j1", "j2"}

FullOptions == JobOptions(FALSE, <<>>, <<>>)

IncrementalOptions ==
    { JobOptions(TRUE, <<>>, <<>>),
      JobOptions(FALSE, << PathA >>, <<>>),
      JobOptions(FALSE, <<>>, << PathB >>),
      JobOptions(FALSE, << PathA >>, << PathB >>),
      JobOptions(TRUE, << PathA, PathB >>, <<>>) }

\* A message of analysis_queue: the JSON of an AnalysisJob (valid is FALSE
\* for a payload serde cannot deserialize); tree is what a clone of
\* repo_url at the branch yields.
JobMessage(job_id, repo_id, tree, options, valid) ==
    [job_id |-> job_id, repo_id |-> repo_id, tree |-> tree, options |-> options,
     valid |-> valid]

NoMessage == JobMessage("", "", Snapshot(0, 0, FALSE, <<>>, <<>>), FullOptions, FALSE)

NoJob == [job_id |-> "", repo_id |-> ""]

NoCall ==
    CallRecord("none", NoJob, NoFault, <<>>, "", "", "none", EmptyGraph, EmptyGraph, EmptyGraph)

Init ==
    /\ graph = EmptyGraph
    /\ ncalls = 0
    /\ last = NoCall
    /\ nfaults = 0
    /\ queue = <<>>
    /\ pc = "idle"
    /\ cur = NoMessage
    /\ reports = <<>>
    /\ outcome = <<>>
    /\ stored = {}
    /\ handled = 0
    /\ tempdirs = {}
    /\ shutdown = FALSE
    /\ conn = Connected
    /\ applied = NotApplied

FullInputs ==
    { Analysis(job_id, repo_id, tree, FullOptions) :
        job_id \in JobIds, repo_id \in Repos, tree \in Snapshots }

IncrementalInputs ==
    UNION { { Analysis(job_id, repo_id, tree, opts) :
                job_id \in JobIds, repo_id \in Repos, tree \in Snapshots } :
            opts \in IncrementalOptions }

\* main.rs 552-583, else branch: a full job reaches store_graph
StoreGraph ==
    /\ ncalls < MaxCalls
    /\ nfaults < MaxFaults
    /\ \E in \in FullInputs :
         \E r \in store_graph(graph, in, ncalls + 1) :
            /\ graph' = r.after
            /\ last' = r
            /\ nfaults' = IF r.result = "Ok" THEN nfaults ELSE nfaults + 1
    /\ ncalls' = ncalls + 1
    /\ UNCHANGED <<workerVars, connectVars>>

\* main.rs 552-583, if branch: an incremental job reaches
\* store_graph_incremental
StoreGraphIncremental ==
    /\ ncalls < MaxCalls
    /\ nfaults < MaxFaults
    /\ \E in \in IncrementalInputs :
         \E r \in store_graph_incremental(graph, in, ncalls + 1) :
            /\ graph' = r.after
            /\ last' = r
            /\ nfaults' = IF r.result = "Ok" THEN nfaults ELSE nfaults + 1
    /\ ncalls' = ncalls + 1
    /\ UNCHANGED <<workerVars, connectVars>>

Next == StoreGraph \/ StoreGraphIncremental

Spec == Init /\ [][Next]_vars

(***************************************************************************)
(* SpecConnect: the two retry loops, for every max_retries up to           *)
(* MaxRetries and every sequence of failing and succeeding attempts        *)
(***************************************************************************)
InitConnect ==
    /\ graph = EmptyGraph
    /\ ncalls = 0
    /\ last = NoCall
    /\ nfaults = 0
    /\ queue = <<>>
    /\ pc = "idle"
    /\ cur = NoMessage
    /\ reports = <<>>
    /\ outcome = <<>>
    /\ stored = {}
    /\ handled = 0
    /\ tempdirs = {}
    /\ shutdown = FALSE
    /\ \E m1, m2 \in 0..MaxRetries :
          conn = [stage |-> "redis", redis |-> Connector(m1), neo4j |-> Connector(m2)]
    /\ applied = NotApplied

\* main.rs 146-188: Client::open or get_async_connection fails, or both
\* succeed
ConnectRedis ==
    /\ conn.stage = "redis"
    /\ \E res \in {"ok", "open_err", "connection_err"} :
          LET r == retry_iteration(conn.redis, res = "ok")
          IN conn' = [conn EXCEPT !.redis = r, !.stage = StageAfter("redis", r)]
    /\ UNCHANGED <<persistVars, workerVars, applied>>

\* main.rs 191-222
ConnectNeo4j ==
    /\ conn.stage = "neo4j"
    /\ \E ok \in BOOLEAN :
          LET r == retry_iteration(conn.neo4j, ok)
          IN conn' = [conn EXCEPT !.neo4j = r, !.stage = StageAfter("neo4j", r)]
    /\ UNCHANGED <<persistVars, workerVars, applied>>

NextConnect == ConnectRedis \/ ConnectNeo4j

SpecConnect == InitConnect /\ [][NextConnect]_vars

(***************************************************************************)
(* SpecWorker: main.rs, the worker loop, process_job and                   *)
(* analyze_repository, one step per await or fallible call                 *)
(***************************************************************************)
MaxPatchFailures == 1

Messages ==
    { JobMessage("j1", "rA", Snapshot(1, 1, TRUE,
                     << LibraryDependency("requests", "2.0", "requirements.txt") >>,
                     << ComposeService("api", <<"8080:8080">>) >>),
                 FullOptions, TRUE),
      JobMessage("j2", "rA", Snapshot(2, 0, FALSE, <<>>, <<>>),
                 JobOptions(FALSE, << PathA >>, << PathB >>), TRUE),
      JobMessage("j3", "rB", Snapshot(2, 0, FALSE, <<>>, <<>>), FullOptions, FALSE),
      JobMessage("j4", "rA", Snapshot(2, 2, FALSE, <<>>, <<>>), FullOptions, TRUE),
      JobMessage("j5", "rA", Snapshot(2, 2, FALSE, <<>>, <<>>),
                 JobOptions(FALSE, << PathA, PathB >>, <<>>), TRUE) }

\* JobUpdatePayload as update_job sends it for the n-th popped message;
\* progress -1 and status "" stand for None; delivered tells whether the
\* PATCH came back 2xx
Report(n, job_id, status, progress, result_summary, error, delivered) ==
    [n |-> n, job_id |-> job_id, status |-> status, progress |-> progress,
     result_summary |-> result_summary, error |-> error, delivered |-> delivered]

NoSummary == [total_files |-> -1, total_functions |-> -1, total_classes |-> -1,
              dependencies |-> -1, incremental |-> FALSE]

\* main.rs 596-614 over DependencyGraph::stats
Summary(in) ==
    [total_files |-> Len(in.parsed_files),
     total_functions |-> Cardinality({n \in in.dep_graph.nodes : n.kind = "Function"}),
     total_classes |-> Cardinality({n \in in.dep_graph.nodes : n.kind = "Class"}),
     dependencies |-> Len(EdgesOfType(in, "IMPORTS")),
     incremental |-> in.incremental]

CurInput == Analysis(cur.job_id, cur.repo_id, cur.tree, cur.options)

PatchFailures == Cardinality({i \in 1..Len(reports) : ~reports[i].delivered})

\* a failed PATCH returned to the caller of the pipeline with ?
update_job_or_fail(status, progress, result_summary, error, next_pc) ==
    /\ \E delivered \in BOOLEAN :
         /\ delivered \/ PatchFailures < MaxPatchFailures
         /\ reports' = Append(reports, Report(handled, cur.job_id, status, progress,
                                              result_summary, error, delivered))
         /\ pc' = IF delivered THEN next_pc ELSE "report_failed"

\* api_client.update_job(..) with `if let Err(e) = .. { error!(..) }`:
\* the attempt is made, its failure is only logged
update_job(status, progress, result_summary, error, next_pc) ==
    /\ \E delivered \in BOOLEAN :
         /\ delivered \/ PatchFailures < MaxPatchFailures
         /\ reports' = Append(reports, Report(handled, cur.job_id, status, progress,
                                              result_summary, error, delivered))
    /\ pc' = next_pc

\* the ? on a fallible step of analyze_repository: on Err the function
\* returns and process_job goes to its Err arm; temp_repo goes out of scope
\* and TempRepo::drop removes the clone directory
Try(step, next_pc) ==
    \E ok \in BOOLEAN :
       IF ok THEN pc' = next_pc /\ outcome' = outcome /\ tempdirs' = tempdirs
       ELSE /\ pc' = "report_failed"
            /\ outcome' = [outcome EXCEPT ![handled] = "Err:" \o step]
            /\ tempdirs' = tempdirs \ {handled}

InitWorker == Init

\* the API gateway pushes a job message (LPUSH)
Enqueue ==
    /\ handled + Len(queue) < MaxQueue
    /\ \E m \in Messages : queue' = << m >> \o queue
    /\ UNCHANGED <<pc, cur, reports, outcome, stored, handled, tempdirs, offJob>>

\* the signal-handler task, main.rs 268-278: ctrl_c() resolves and the
\* task stores true in the flag
Signal ==
    /\ ~shutdown
    /\ shutdown' = TRUE
    /\ UNCHANGED <<queue, pc, cur, reports, outcome, stored, handled, tempdirs,
                   persistVars, connectVars>>

\* a loop that does not look at the flag
LoopCheckIgnoresFlag ==
    /\ pc = "idle"
    /\ pc' = "poll"
    /\ UNCHANGED <<queue, cur, reports, outcome, stored, handled, tempdirs, offJob>>

\* main.rs 283: `while !shutdown.load(..)`, read at the top of every
\* iteration
LoopCheck ==
    /\ pc = "idle"
    /\ pc' = IF shutdown THEN "cleanup" ELSE "poll"
    /\ UNCHANGED <<queue, cur, reports, outcome, stored, handled, tempdirs, offJob>>

\* main.rs 339-342, 394-397 and 286-289: RPOP finds the queue empty,
\* process_job returns Ok(false) and the loop sleeps
PollEmpty ==
    /\ pc = "poll"
    /\ queue = <<>>
    /\ pc' = "idle"
    /\ UNCHANGED <<queue, cur, reports, outcome, stored, handled, tempdirs, offJob>>

\* main.rs 298-303 and cleanup_temp_files, main.rs 307-330: every archmind-
\* directory of the temp dir is removed, then main returns
Cleanup ==
    /\ pc = "cleanup"
    /\ tempdirs' = {}
    /\ pc' = "stopped"
    /\ UNCHANGED <<queue, cur, reports, outcome, stored, handled, offJob>>

\* a payload that does not deserialize pushed back on the queue
PopJobRequeues ==
    /\ pc = "poll"
    /\ queue # <<>>
    /\ LET m == queue[Len(queue)]
       IN /\ handled' = handled + 1
          /\ IF m.valid
             THEN /\ queue' = SubSeq(queue, 1, Len(queue) - 1)
                  /\ cur' = m
                  /\ pc' = "report_processing"
                  /\ outcome' = Append(outcome, "running")
             ELSE /\ queue' = << m >> \o SubSeq(queue, 1, Len(queue) - 1)
                  /\ cur' = NoMessage
                  /\ pc' = "idle"
                  /\ outcome' = Append(outcome, "undeserializable")
    /\ UNCHANGED <<reports, stored, tempdirs, offJob>>

\* main.rs 339-349: RPOP and deserialize; a payload that does not
\* deserialize is dropped with process_job returning Err
PopJob ==
    /\ pc = "poll"
    /\ queue # <<>>
    /\ LET m == queue[Len(queue)]
       IN /\ queue' = SubSeq(queue, 1, Len(queue) - 1)
          /\ handled' = handled + 1
          /\ IF m.valid
             THEN /\ cur' = m
                  /\ pc' = "report_processing"
                  /\ outcome' = Append(outcome, "running")
             ELSE /\ cur' = NoMessage
                  /\ pc' = "idle"
                  /\ outcome' = Append(outcome, "undeserializable")
    /\ UNCHANGED <<reports, stored, tempdirs, offJob>>

\* main.rs 351-361
ReportProcessing ==
    /\ pc = "report_processing"
    /\ update_job("PROCESSING", 0, NoSummary, "", "clone")
    /\ UNCHANGED <<queue, cur, outcome, stored, handled, tempdirs, offJob>>

\* main.rs 439 and clone_repository, main.rs 619-698. RepoBuilder::clone
\* fills the directory; an Err of the steps after it (repo.head, no branch
\* found, checkout_tree, set_head) returns before TempRepo is constructed,
\* so nothing owns the directory. A clone that fails is taken to leave no
\* directory.
CloneRepository ==
    /\ pc = "clone"
    /\ \E res \in {"ok", "clone_err", "checkout_err"} :
          CASE res = "ok" ->
                 /\ tempdirs' = tempdirs \cup {handled}
                 /\ pc' = "report_25"
                 /\ outcome' = outcome
            [] res = "clone_err" ->
                 /\ tempdirs' = tempdirs
                 /\ pc' = "report_failed"
                 /\ outcome' = [outcome EXCEPT ![handled] = "Err:clone"]
            [] res = "checkout_err" ->
                 /\ tempdirs' = tempdirs \cup {handled}
                 /\ pc' = "report_failed"
                 /\ outcome' = [outcome EXCEPT ![handled] = "Err:clone"]
    /\ UNCHANGED <<queue, cur, reports, stored, handled, offJob>>

\* main.rs 451-459
Report25 ==
    /\ pc = "report_25"
    /\ update_job("", 25, NoSummary, "", "parse")
    /\ UNCHANGED <<queue, cur, outcome, stored, handled, tempdirs, offJob>>

\* main.rs 461-467: the ? on parse_repository_subset or parse_repository;
\* Err:parse is an error of read_dir or read_to_string, Err:parse_file the
\* error of a language parser
ParseFiles ==
    /\ pc = "parse"
    /\ IF IsIncremental(cur.options)
          /\ parse_repository_subset_fails(cur.tree, cur.options.changed_files)
       THEN /\ pc' = "report_failed"
            /\ outcome' = [outcome EXCEPT ![handled] = "Err:parse_file"]
            /\ tempdirs' = tempdirs \ {handled}
       ELSE Try("parse", "report_50")
    /\ UNCHANGED <<queue, cur, reports, stored, handled, offJob>>

\* main.rs 469-477
Report50 ==
    /\ pc = "report_50"
    /\ update_job("", 50, NoSummary, "", "analyze")
    /\ UNCHANGED <<queue, cur, outcome, stored, handled, tempdirs, offJob>>

\* main.rs 479-513: symbol table, git history (its errors become None, the
\* git flag of the tree), detect_boundaries(..)?, which has no Err path, and
\* collect_library_dependencies(..)?, which returns the error of a directory
\* or manifest it cannot read or parse
Analyze ==
    /\ pc = "analyze"
    /\ Try("library_dependencies", "report_60")
    /\ UNCHANGED <<queue, cur, reports, stored, handled, offJob>>

\* the 60% checkpoint left out
Report60Skipped ==
    /\ pc = "report_60"
    /\ pc' = "detect"
    /\ UNCHANGED <<queue, cur, reports, outcome, stored, handled, tempdirs, offJob>>

\* main.rs 515-523
Report60 ==
    /\ pc = "report_60"
    /\ update_job("", 60, NoSummary, "", "detect")
    /\ UNCHANGED <<queue, cur, outcome, stored, handled, tempdirs, offJob>>

\* main.rs 525-540: CommunicationDetector::detect(..)? and the dependency graph
DetectCommunication ==
    /\ pc = "detect"
    /\ Try("communication", "report_75")
    /\ UNCHANGED <<queue, cur, reports, stored, handled, offJob>>

\* main.rs 542-550
Report75 ==
    /\ pc = "report_75"
    /\ update_job("", 75, NoSummary, "", "store")
    /\ UNCHANGED <<queue, cur, outcome, stored, handled, tempdirs, offJob>>

\* the persistence step with its error only logged, as the progress reports
\* are: the pipeline goes on to the 90 report
StoreLogsError ==
    /\ pc = "store"
    /\ \E r \in IF CurInput.incremental
                 THEN store_graph_incremental(graph, CurInput, ncalls + 1)
                 ELSE store_graph(graph, CurInput, ncalls + 1) :
         /\ r.result = "Ok" \/ nfaults < MaxFaults
         /\ graph' = r.after
         /\ last' = r
         /\ nfaults' = IF r.result = "Ok" THEN nfaults ELSE nfaults + 1
         /\ stored' = IF r.result = "Ok" THEN stored \cup {handled} ELSE stored
    /\ pc' = "report_90"
    /\ ncalls' = ncalls + 1
    /\ UNCHANGED <<queue, cur, reports, outcome, handled, tempdirs, connectVars, shutdown>>

\* main.rs 552-583: store_graph_incremental(..)? or store_graph(..)?
Store ==
    /\ pc = "store"
    /\ \E r \in IF CurInput.incremental
                 THEN store_graph_incremental(graph, CurInput, ncalls + 1)
                 ELSE store_graph(graph, CurInput, ncalls + 1) :
         /\ r.result = "Ok" \/ nfaults < MaxFaults
         /\ graph' = r.after
         /\ last' = r
         /\ nfaults' = IF r.result = "Ok" THEN nfaults ELSE nfaults + 1
         /\ IF r.result = "Ok"
            THEN /\ pc' = "report_90"
                 /\ stored' = stored \cup {handled}
                 /\ outcome' = outcome
                 /\ tempdirs' = tempdirs
            ELSE /\ pc' = "report_failed"
                 /\ stored' = stored
                 /\ outcome' = [outcome EXCEPT ![handled] = "Err:persistence"]
                 /\ tempdirs' = tempdirs \ {handled}
    /\ ncalls' = ncalls + 1
    /\ UNCHANGED <<queue, cur, reports, handled, connectVars, shutdown>>

\* main.rs 585-593
Report90 ==
    /\ pc = "report_90"
    /\ update_job("", 90, NoSummary, "", "summarize")
    /\ UNCHANGED <<queue, cur, outcome, stored, handled, tempdirs, offJob>>

\* main.rs 595-616: analyze_repository returns Ok(summary) and temp_repo is
\* dropped
Summarize ==
    /\ pc = "summarize"
    /\ outcome' = [outcome EXCEPT ![handled] = "Ok"]
    /\ pc' = "report_completed"
    /\ tempdirs' = tempdirs \ {handled}
    /\ UNCHANGED <<queue, cur, reports, stored, handled, offJob>>

\* main.rs 365-377: the Ok arm, after which process_job returns Ok(true)
ReportCompleted ==
    /\ pc = "report_completed"
    /\ update_job("COMPLETED", 100, Summary(CurInput), "", "idle")
    /\ cur' = NoMessage
    /\ UNCHANGED <<queue, outcome, stored, handled, tempdirs, offJob>>

\* the Err arm that only logs
ReportFailedSilently ==
    /\ pc = "report_failed"
    /\ pc' = "idle"
    /\ cur' = NoMessage
    /\ UNCHANGED <<queue, reports, outcome, stored, handled, tempdirs, offJob>>

\* main.rs 378-391: the Err arm, after which process_job returns Ok(true)
ReportFailed ==
    /\ pc = "report_failed"
    /\ update_job("FAILED", -1, NoSummary, outcome[handled], "idle")
    /\ cur' = NoMessage
    /\ UNCHANGED <<queue, outcome, stored, handled, tempdirs, offJob>>

NextWorker ==
    \/ Enqueue
    \/ Signal
    \/ LoopCheck
    \/ PollEmpty
    \/ Cleanup
    \/ PopJob
    \/ ReportProcessing
    \/ CloneRepository
    \/ Report25
    \/ ParseFiles
    \/ Report50
    \/ Analyze
    \/ Report60
    \/ DetectCommunication
    \/ Report75
    \/ Store
    \/ Report90
    \/ Summarize
    \/ ReportCompleted
    \/ ReportFailed

SpecWorker == InitWorker /\ [][NextWorker]_vars

\* the steps of the main task; the runtime keeps polling it, and every await
\* of a job is taken to return
WorkerStep ==
    \/ LoopCheck \/ PollEmpty \/ Cleanup \/ PopJob
    \/ ReportProcessing \/ CloneRepository \/ Report25 \/ ParseFiles \/ Report50
    \/ Analyze \/ Report60 \/ DetectCommunication \/ Report75 \/ Store \/ Report90
    \/ Summarize \/ ReportCompleted \/ ReportFailed

\* SpecShutdown: the worker started on a queue that already holds its
\* messages (full jobs and payloads that do not deserialize), with the
\* signal arriving at any moment
InitShutdown ==
    /\ graph = EmptyGraph
    /\ ncalls = 0
    /\ last = NoCall
    /\ nfaults = 0
    /\ queue \in UNION {[1..k -> {m \in Messages : m.job_id \in {"j1", "j3"}}] :
                          k \in 0..MaxQueue}
    /\ pc = "idle"
    /\ cur = NoMessage
    /\ reports = <<>>
    /\ outcome = <<>>
    /\ stored = {}
    /\ handled = 0
    /\ tempdirs = {}
    /\ shutdown = FALSE
    /\ conn = Connected
    /\ applied = NotApplied

NextShutdown == Signal \/ WorkerStep

\* the steps of the loop outside a job
LoopStep == LoopCheck \/ PollEmpty \/ Cleanup \/ PopJob

\* the steps of a job whose next states depend on the job's data only
\* through its options and its tree
JobStep ==
    \/ ReportProcessing \/ CloneRepository \/ Report25 \/ ParseFiles \/ Report50
    \/ Analyze \/ Report60 \/ DetectCommunication \/ Report75 \/ Report90
    \/ Summarize \/ ReportFailed

\* Store is enabled exactly when control is at "store", and every Store step
\* moves control to one of these two points
StoreReturns == pc = "store" /\ pc' \in {"report_90", "report_failed"}

\* ReportCompleted is enabled exactly when control is at "report_completed",
\* and every such step moves control to "idle"
ReportCompletedReturns == pc = "report_completed" /\ pc' = "idle"

\* The runtime keeps polling the main task, so the loop goes on, and every
\* await of the job in flight returns: the job terminates.  For Store and
\* ReportCompleted the condition is stated on the control point alone.
SpecShutdown ==
    /\ InitShutdown /\ [][NextShutdown]_vars
    /\ WF_vars(LoopStep) /\ WF_vars(JobStep)
    /\ WF_pc(StoreReturns) /\ WF_pc(ReportCompletedReturns)

(***************************************************************************)
(* SpecApply: functions of the program applied on their own, to arguments  *)
(* drawn from bounded sets, one application per behaviour                  *)
(***************************************************************************)
PathC == "services/c.py"

\* a parsed file with the given top-level functions and classes
SourceOf(path, functions, classes) ==
    [path |-> path, language |-> "python", functions |-> functions, classes |-> classes,
     imports |-> <<>>, data_tables |-> <<>>, service_calls |-> <<>>]

\* files that define f, g and K.f in every combination, under three paths
SymbolFiles ==
    { SourceOf(path, functions, classes) :
        path \in {PathA, PathB, PathC},
        functions \in { <<>>,
                        << FunctionInfo("f", <<>>, <<>>, 1, 2) >>,
                        << FunctionInfo("g", <<>>, <<>>, 1, 2),
                           FunctionInfo("f", <<>>, <<>>, 3, 4) >> },
        classes \in { <<>>,
                      << ClassInfo("K", <<>>, <<>>, 5, 6) >>,
                      << ClassInfo("K", <<>>, << FunctionInfo("f", <<"self">>, <<>>, 6, 7) >>,
                                   5, 8) >> } }

\* one or two parsed files of distinct paths, in input order
SymbolInputs ==
    { << a >> : a \in SymbolFiles }
    \cup { pair \in SymbolFiles \X SymbolFiles : pair[1].path # pair[2].path }

LookupNames == {"f", "g", "K", "K.f", "h"}

InitApply ==
    /\ graph = EmptyGraph
    /\ ncalls = 0
    /\ last = NoCall
    /\ nfaults = 0
    /\ queue = <<>>
    /\ pc = "idle"
    /\ cur = NoMessage
    /\ reports = <<>>
    /\ outcome = <<>>
    /\ stored = {}
    /\ handled = 0
    /\ tempdirs = {}
    /\ shutdown = FALSE
    /\ conn = Connected
    /\ applied = NotApplied

\* graph_builder.rs 201-212 on the table of graph_builder.rs 127-198
ApplyResolveFunction ==
    /\ applied = NotApplied
    /\ \E files \in SymbolInputs, name \in LookupNames, current_file \in {PathA, PathB, PathC} :
          applied' = [fn |-> "resolve_function", parsed_files |-> files, name |-> name,
                      current_file |-> current_file,
                      val |-> resolve_function(SymbolTable(files), name, current_file)]
    /\ UNCHANGED <<persistVars, workerVars, conn>>

\* graph_builder.rs 214-224
ApplyResolveClass ==
    /\ applied = NotApplied
    /\ \E files \in SymbolInputs, name \in LookupNames, current_file \in {PathA, PathB, PathC} :
          applied' = [fn |-> "resolve_class", parsed_files |-> files, name |-> name,
                      current_file |-> current_file,
                      val |-> resolve_class(SymbolTable(files), name, current_file)]
    /\ UNCHANGED <<persistVars, workerVars, conn>>

\* files whose classes K and L define methods m and n, next to a top-level
\* function m or none
ClassFiles ==
    { SourceOf(path, functions, classes) :
        path \in {PathA, PathB},
        functions \in { <<>>, << FunctionInfo("m", <<>>, <<>>, 1, 2) >> },
        classes \in
          { << ClassInfo("K", <<>>, << FunctionInfo("m", <<"self">>, <<>>, 4, 5) >>, 3, 5) >>,
            << ClassInfo("K", <<>>, << FunctionInfo("m", <<"self">>, <<>>, 4, 5) >>, 3, 5),
               ClassInfo("L", << InheritanceInfo("K", "class") >>,
                         << FunctionInfo("n", <<"self">>, <<"m">>, 7, 8) >>, 6, 8) >>,
            << ClassInfo("K", <<>>, << FunctionInfo("m", <<"self">>, <<>>, 4, 5) >>, 3, 5),
               ClassInfo("L", << InheritanceInfo("K", "class") >>,
                         << FunctionInfo("m", <<"self">>, <<>>, 7, 8) >>, 6, 8) >> } }

ClassInputs ==
    { << a >> : a \in ClassFiles }
    \cup { pair \in ClassFiles \X ClassFiles : pair[1].path # pair[2].path }

\* main.rs 480 and 536: the symbol table and the dependency graph of the parsed
\* files
ApplyFromParsedFiles ==
    /\ applied = NotApplied
    /\ \E files \in ClassInputs :
          applied' = [fn |-> "from_parsed_files", parsed_files |-> files,
                      val |-> from_parsed_files(files, SymbolTable(files))]
    /\ UNCHANGED <<persistVars, workerVars, conn>>

\* main.rs 891-898
node_id_to_string(node) ==
    IF node.kind \in {"Class", "Function"} THEN get_qualified_id(node.file, node.name)
    ELSE node.name

\* edge.edge_type.as_str().to_lowercase()
to_lowercase(edge_type) ==
    CASE edge_type = "DEFINES" -> "defines"
      [] edge_type = "CALLS" -> "calls"
      [] edge_type = "IMPORTS" -> "imports"
      [] edge_type = "INHERITS" -> "inherits"
      [] edge_type = "CONTAINS" -> "contains"

\* PatchNode without its display fields (label, extension, language, depth);
\* line 0 stands for None
PatchNode(id, node_type, parent_id, file_path, line_number, end_line_number) ==
    [id |-> id, node_type |-> node_type, parent_id |-> parent_id, file_path |-> file_path,
     line_number |-> line_number, end_line_number |-> end_line_number]

PatchEdge(source, target, edge_type) ==
    [id |-> edge_type \o ":" \o source \o "->" \o target, source |-> source,
     target |-> target, edge_type |-> edge_type]

\* main.rs 785-889
build_graph_patch(parsed_files, dep_graph, changed_files, removed_files) ==
    LET of_file(file) ==
            << PatchNode(file.path, "file", "", file.path, 0, 0) >>
            \o [c \in 1..Len(file.classes) |->
                  PatchNode(get_qualified_id(file.path, file.classes[c].name), "class",
                            file.path, file.path, file.classes[c].start_line,
                            file.classes[c].end_line)]
            \o [f \in 1..Len(file.functions) |->
                  PatchNode(get_qualified_id(file.path, file.functions[f].name), "function",
                            file.path, file.path, file.functions[f].start_line,
                            file.functions[f].end_line)]
        module_nodes ==
            SetToSeq({n.name : n \in {x \in ({e.from : e \in Range(dep_graph.edges)}
                                              \cup {e.to : e \in Range(dep_graph.edges)}) :
                                         x.kind = "Module"}})
    IN [changed_files |-> changed_files,
        removed_files |-> removed_files,
        nodes |-> SeqFlat([i \in 1..Len(parsed_files) |-> of_file(parsed_files[i])])
                  \o [k \in 1..Len(module_nodes) |->
                        PatchNode(module_nodes[k], "module", "", "", 0, 0)],
        edges |-> [i \in 1..Len(dep_graph.edges) |->
                     PatchEdge(node_id_to_string(dep_graph.edges[i].from),
                               node_id_to_string(dep_graph.edges[i].to),
                               to_lowercase(dep_graph.edges[i].edge_type))]]

\* main.rs 605-606: the patch of an incremental job over the files it parsed
ApplyBuildGraphPatch ==
    /\ applied = NotApplied
    /\ \E files \in ClassInputs \cup SymbolInputs :
          LET dep_graph == from_parsed_files(files, SymbolTable(files))
              changed_files == PathsOf(files)
          IN applied' = [fn |-> "build_graph_patch", parsed_files |-> files,
                         dep_graph |-> dep_graph,
                         val |-> build_graph_patch(files, dep_graph, changed_files, <<>>)]
    /\ UNCHANGED <<persistVars, workerVars, conn>>

\* relative paths of files a parser accepts, one of them a file name that
\* holds "::", and names as the parsers capture them (identifiers)
IdPaths == {"a.py", "b.py", "src/a.py", "a.py::b.py"}
IdNames == {"f", "b", "py", "K"}

\* neo4j_storage.rs 54-79: the rows of two Class nodes or of two Function
\* nodes
ApplyNodeToMap ==
    /\ applied = NotApplied
    /\ \E kind \in {"Class", "Function"}, p1 \in IdPaths, p2 \in IdPaths,
          n1 \in IdNames, n2 \in IdNames :
          LET row(path, name) ==
                 IF kind = "Class" THEN class_node_to_map(name, path, 1, 2, "j1", "rA")
                 ELSE function_node_to_map(FunctionInfo(name, <<>>, <<>>, 1, 2), path,
                                           "j1", "rA")
          IN applied' = [fn |-> "node_to_map", kind |-> kind,
                         a |-> row(p1, n1), b |-> row(p2, n2)]
    /\ UNCHANGED <<persistVars, workerVars, conn>>

\* A line of docker-compose.yml: the count of its leading spaces and its
\* trimmed text.  The string tests of the scan are tables over the texts
\* the model uses.
Line(indent, trimmed) == [indent |-> indent, trimmed |-> trimmed]

KeyTexts == {"services:", "api:", "db:", "ports:", "environment:"}
ItemTexts == {"- \"8080:80\"", "- DEBUG=1"}

starts_with_services(trimmed) == trimmed = "services:"
starts_with_ports(trimmed) == trimmed = "ports:"
ends_with_colon(trimmed) == trimmed \in KeyTexts
starts_with_dash(trimmed) == trimmed \in ItemTexts

\* trimmed.trim_end_matches(':')
service_name(trimmed) ==
    CASE trimmed = "api:" -> "api" [] trimmed = "db:" -> "db"
      [] trimmed = "ports:" -> "ports" [] trimmed = "environment:" -> "environment"
      [] trimmed = "services:" -> "services"

\* trimmed.trim_start_matches('-').trim().trim_matches('"')
port_string(trimmed) ==
    CASE trimmed = "- \"8080:80\"" -> "8080:80" [] trimmed = "- DEBUG=1" -> "DEBUG=1"

\* the state of the scan: in_services, in_ports, current_service (a sequence
\* of at most one service), services
ScanStart == [in_services |-> FALSE, in_ports |-> FALSE, current |-> <<>>, services |-> <<>>]

\* communication_detector.rs 276-308: the body of the loop for one line
scan_line(st, line) ==
    IF starts_with_services(line.trimmed) THEN [st EXCEPT !.in_services = TRUE]
    ELSE IF ~st.in_services THEN st
    ELSE IF line.indent = 2 /\ ends_with_colon(line.trimmed)
            /\ ~starts_with_dash(line.trimmed)
    THEN [st EXCEPT !.services = @ \o st.current,
                    !.current = << ComposeService(service_name(line.trimmed), <<>>) >>,
                    !.in_ports = FALSE]
    ELSE IF line.indent >= 4 /\ starts_with_ports(line.trimmed)
    THEN [st EXCEPT !.in_ports = TRUE]
    ELSE IF st.in_ports /\ line.indent >= 6 /\ starts_with_dash(line.trimmed)
            /\ st.current # <<>> /\ port_string(line.trimmed) # ""
    THEN [st EXCEPT !.current[1].ports = Append(@, port_string(line.trimmed))]
    ELSE st

RECURSIVE scan_lines(_, _)
scan_lines(st, lines) ==
    IF lines = <<>> THEN st ELSE scan_lines(scan_line(st, Head(lines)), Tail(lines))

\* communication_detector.rs 264-319, on the lines of an existing file
parse_docker_compose(lines) ==
    LET st == scan_lines(ScanStart, lines)
    IN st.services \o st.current

MaxLines == 5

\* the lines a compose file is made of here: two services, the ports key,
\* another key, and two list items
ComposeLines ==
    {Line(2, "api:"), Line(2, "db:"), Line(4, "ports:"), Line(4, "environment:"),
     Line(6, "- \"8080:80\""), Line(6, "- DEBUG=1")}

\* a services: line followed by up to MaxLines lines
ComposeFiles ==
    {<< Line(0, "services:") >> \o body :
        body \in UNION {[1..k -> ComposeLines] : k \in 0..MaxLines}}

ApplyParseDockerCompose ==
    /\ applied = NotApplied
    /\ \E lines \in ComposeFiles :
          applied' = [fn |-> "parse_docker_compose", lines |-> lines,
                      val |-> parse_docker_compose(lines)]
    /\ UNCHANGED <<persistVars, workerVars, conn>>

NextApply ==
    \/ ApplyResolveFunction \/ ApplyResolveClass \/ ApplyFromParsedFiles
    \/ ApplyBuildGraphPatch \/ ApplyNodeToMap \/ ApplyParseDockerCompose

SpecApply == InitApply /\ [][NextApply]_vars

(***************************************************************************)
(* Properties of the persistor (Spec)                                      *)
(***************************************************************************)
CodeLabels == {"File", "Class", "Function"}

\* the file a File, Class or Function node belongs to
FileOf(n) == IF n.label = "File" THEN n.p.path ELSE n.p.file

\* the File, Class and Function nodes under a repo_id
CodeNodes(g, repo_id) ==
    {n \in g.nodes : n.label \in CodeLabels /\ n.p.repo_id = repo_id}

\* the File, Class and Function nodes derived from a job's parsed files
DerivedNodes(in) ==
    {GNode("File", << row.id >>, row) : row \in Range(FileRows(in))}
    \cup {GNode("Class", << row.id >>, row) : row \in Range(ClassRows(in))}
    \cup {GNode("Function", << row.id >>, row) : row \in Range(FunctionRows(in))}

TouchedPaths(in) == Range(in.changed_files) \cup Range(in.removed_files)

WithoutTimestamp(g) ==
    [g EXCEPT !.nodes = {IF n.label = "Job" THEN [n EXCEPT !.p.timestamp = 0] ELSE n :
                           n \in @}]

\* C1: in store_graph, when a batch operation of execute_batch_operations
\* returns an error the call issues a rollback and no commit, returns an
\* error, and the committed graph is what it was before the call (the job's
\* Job node included); a commit is issued only after every batch operation
\* ran without error.
C1_FullErrorRollsBack ==
    last.mode = "full" =>
        /\ last.fault.at \in Range(BatchOps) =>
              /\ last.result = "Err"
              /\ last.trace[Len(last.trace)] = "rollback"
              /\ "commit" \notin Range(last.trace)
              /\ graph = last.before
        /\ "commit" \in Range(last.trace) =>
              /\ last.fault.at \notin Range(BatchOps)
              /\ SubSeq(last.trace, 2, Len(BatchOps) + 1) = BatchOps
        /\ last.txn = "committed" <=> last.result = "Ok"

\* a full ingest failed in a batch operation after the transaction had
\* written the job's Job node, and the graph shows none of it
C1_Witness ==
    /\ last.mode = "full"
    /\ last.fault.at \in Range(BatchOps)
    /\ last.work # last.before
    /\ \E n \in last.work.nodes :
          n.label = "Job" /\ n.p.id = last.in.job_id /\ n \notin graph.nodes
    /\ last.result = "Err"

\* C2: store_graph committed twice in a row with the same job output leaves
\* the graph the first call left, up to the timestamp of the Job node.
C2_RepersistIsIdempotent ==
    [][(/\ last.mode = "full" /\ last.result = "Ok"
        /\ last'.mode = "full" /\ last'.result = "Ok"
        /\ ncalls' = ncalls + 1
        /\ last'.in = last.in)
       => WithoutTimestamp(graph') = WithoutTimestamp(graph)]_vars

\* the second of two committed full ingests left the graph of the first but
\* for the timestamp it rewrote
C2_Witness ==
    /\ last.mode = "full" /\ last.result = "Ok"
    /\ ncalls = 2
    /\ last.before.edges # {}
    /\ graph # last.before
    /\ WithoutTimestamp(graph) = WithoutTimestamp(last.before)
    /\ \E n \in last.before.nodes :
          n.label = "Job" /\ n.p.id = last.in.job_id /\ n.p.repo_id = last.in.repo_id

C5_OtherRepoUntouched ==
    [][ncalls' = ncalls + 1 =>
          \A n \in graph.nodes :
              (/\ n.label \in CodeLabels \cup {"Module", "Boundary"}
               /\ n.p.repo_id # last'.in.repo_id)
              => n \in graph'.nodes]_vars

\* the node batches that MERGE the labels an edge batch MATCHes
EndpointBatches(op) ==
    CASE op = "batch_insert_defines_edges" ->
            {"batch_insert_file_nodes", "batch_insert_class_nodes",
             "batch_insert_function_nodes"}
      [] op = "batch_insert_contains_edges" ->
            {"batch_insert_class_nodes", "batch_insert_function_nodes"}
      [] op = "batch_insert_calls_edges" -> {"batch_insert_function_nodes"}
      [] op = "batch_insert_imports_edges" ->
            {"batch_insert_file_nodes", "batch_insert_module_nodes"}
      [] op = "batch_insert_inherits_edges" ->
            {"batch_insert_class_nodes", "batch_insert_module_nodes"}
      [] op = "batch_insert_belongs_to_edges" ->
            {"batch_insert_file_nodes", "batch_insert_boundary_nodes"}
      [] op = "batch_insert_library_edges" ->
            {"batch_insert_file_nodes", "batch_insert_library_nodes"}
      [] op = "batch_insert_table_edges" ->
            {"batch_insert_file_nodes", "batch_insert_table_nodes"}
      [] op = "batch_insert_service_edges" ->
            {"batch_insert_file_nodes", "batch_insert_service_nodes"}
      [] op = "batch_insert_endpoint_edges" ->
            {"batch_insert_file_nodes", "batch_insert_endpoint_nodes"}
      [] op = "batch_insert_rpc_edges" ->
            {"batch_insert_file_nodes", "batch_insert_rpc_nodes"}
      [] op = "batch_insert_queue_edges" ->
            {"batch_insert_file_nodes", "batch_insert_queue_nodes"}
      [] op = "batch_insert_endpoint_service_edges" ->
            {"batch_insert_endpoint_nodes", "batch_insert_compose_service_nodes"}
      [] op = "batch_insert_file_dependencies" -> {"batch_insert_file_nodes"}
      [] OTHER -> {}

\* C6: in the sequence of batch operations a transaction ran, every edge
\* batch comes after the node batches for the labels of both its endpoints.
C6_NodesBeforeEdges ==
    \A i \in 1..Len(last.trace) :
        \A op \in EndpointBatches(last.trace[i]) :
            \E j \in 1..(i - 1) : last.trace[j] = op

\* a transaction ran every batch operation, the last edge batches included,
\* and committed edges between the nodes it wrote
C6_Witness ==
    /\ last.result = "Ok"
    /\ \E i \in 1..Len(last.trace) : last.trace[i] = "batch_insert_file_dependencies"
    /\ \E r \in graph.edges : r.type = "EXPOSED_BY" /\ r \notin last.before.edges
    /\ \E r \in graph.edges : r.type = "DEFINES" /\ r \notin last.before.edges

\* C7: in store_graph_incremental, when the detach-delete or a batch
\* operation returns an error the call issues a rollback before it returns
\* the error, and the committed graph is what it was before the call.
C7_IncrementalErrorRollsBack ==
    (last.mode = "incremental"
     /\ last.fault.at \in {"delete_file_nodes"} \cup Range(BatchOps)) =>
        /\ last.result = "Err"
        /\ "rollback" \in Range(last.trace)
        /\ graph = last.before

\* C8: after store_graph commits, the File, Class and Function nodes under
\* the job's repo_id are exactly the nodes derived from the job's parsed
\* files.
C8_FullIngestReplaces ==
    (last.mode = "full" /\ last.result = "Ok") =>
        CodeNodes(graph, last.in.repo_id) = DerivedNodes(last.in)

(***************************************************************************)
(* Properties of the worker (SpecWorker)                                   *)
(***************************************************************************)
\* the reports attempted for the n-th popped message, in order
ReportsOf(n) == SelectSeq(reports, LAMBDA r : r.n = n)

\* process_job has returned for the n-th popped message
Finished(n) == n < handled \/ (n = handled /\ pc \in {"idle", "poll", "cleanup", "stopped"})

Checkpoints ==
    << << "PROCESSING", 0 >>, << "", 25 >>, << "", 50 >>, << "", 60 >>, << "", 75 >>,
       << "", 90 >>, << "COMPLETED", 100 >> >>

StatusAndProgress(rs) == [i \in 1..Len(rs) |-> << rs[i].status, rs[i].progress >>]

Terminal(r) == r.status \in {"COMPLETED", "FAILED"}

\* C10: once process_job has returned for a deserialized job, exactly one
\* of the job's reports is terminal and it is the last one: COMPLETED with
\* progress 100 and a result_summary if analyze_repository returned Ok,
\* FAILED with the error text if it returned an error; while the job is in
\* flight none of its reports is terminal.
C10_OneTerminalReport ==
    \A n \in 1..handled :
        outcome[n] # "undeserializable" =>
            LET rs == ReportsOf(n)
                terminals == {i \in 1..Len(rs) : Terminal(rs[i])}
            IN IF Finished(n)
               THEN /\ terminals = {Len(rs)}
                    /\ Len(rs) > 0
                    /\ outcome[n] = "Ok" =>
                          /\ rs[Len(rs)].status = "COMPLETED"
                          /\ rs[Len(rs)].progress = 100
                          /\ rs[Len(rs)].result_summary # NoSummary
                    /\ outcome[n] # "Ok" =>
                          /\ rs[Len(rs)].status = "FAILED"
                          /\ rs[Len(rs)].error = outcome[n]
                          /\ rs[Len(rs)].error # ""
                          /\ outcome[n] # "running"
               ELSE terminals = {}

\* process_job has returned for two jobs, one reported COMPLETED after its
\* graph was committed, the other reported FAILED
C10_Witness ==
    \E n, m \in 1..handled :
        /\ Finished(n) /\ Finished(m)
        /\ outcome[n] = "Ok" /\ n \in stored
        /\ outcome[m] \notin {"Ok", "undeserializable", "running"}
        /\ \E i \in 1..Len(reports) : reports[i].n = m /\ reports[i].status = "FAILED"
        /\ \E i \in 1..Len(reports) : reports[i].n = n /\ reports[i].status = "COMPLETED"

\* the step that follows each report in process_job and analyze_repository
AfterReport(at) ==
    CASE at = "report_processing" -> "clone"
      [] at = "report_25" -> "parse"
      [] at = "report_50" -> "analyze"
      [] at = "report_60" -> "detect"
      [] at = "report_75" -> "store"
      [] at = "report_90" -> "summarize"
      [] at = "report_completed" -> "idle"
      [] at = "report_failed" -> "idle"
      [] OTHER -> "none"

\* C11: a report whose PATCH fails leaves the outcome of the job and the
\* graph as they are and is followed by the step that follows the report
\* when it is delivered; a job with a failed report whose pipeline met no
\* other error has its graph stored and all seven reports attempted.
C11_FailedReportChangesNothing ==
    /\ [][(Len(reports') = Len(reports) + 1 /\ ~reports'[Len(reports')].delivered) =>
            /\ pc' = AfterReport(pc)
            /\ outcome' = outcome
            /\ graph' = graph
            /\ stored' = stored]_vars
    /\ [](\A n \in 1..handled :
            (/\ Finished(n)
             /\ \E i \in 1..Len(ReportsOf(n)) : ~ReportsOf(n)[i].delivered
             /\ outcome[n] \notin {"undeserializable", "Err:clone", "Err:parse", "Err:parse_file",
                                   "Err:library_dependencies", "Err:communication",
                                   "Err:persistence"})
            => /\ outcome[n] = "Ok"
               /\ n \in stored
               /\ StatusAndProgress(ReportsOf(n)) = Checkpoints)

\* a job whose 25% report failed was stored and reported up to COMPLETED
C11_Witness ==
    \E n \in 1..handled :
        /\ Finished(n) /\ outcome[n] = "Ok" /\ n \in stored
        /\ \E i \in 1..Len(ReportsOf(n)) :
              ReportsOf(n)[i].progress = 25 /\ ~ReportsOf(n)[i].delivered
        /\ ReportsOf(n)[Len(ReportsOf(n))].status = "COMPLETED"

\* C12: a job whose clone, parse and persistence met no error is reported
\* COMPLETED when process_job returns, whatever the optional analyzers
\* (git history, boundaries, library manifests, communication) met.
C12_OptionalAnalyzerNeverFailsJob ==
    \A n \in 1..handled :
        (/\ Finished(n)
         /\ outcome[n] \notin {"undeserializable", "Err:clone", "Err:parse", "Err:parse_file",
                               "Err:persistence"})
        => /\ outcome[n] = "Ok"
           /\ ReportsOf(n)[Len(ReportsOf(n))].status = "COMPLETED"

\* the message of the n-th popped job, found by the job_id of its reports
MessageOf(n) == CHOOSE m \in Messages : m.job_id = ReportsOf(n)[1].job_id

\* the files of the message the job is to parse
FilesToParse(m) ==
    IF IsIncremental(m.options)
    THEN {p \in Range(m.options.changed_files) \cap Paths : m.tree.files[p] # 0}
    ELSE {p \in Paths : m.tree.files[p] # 0}

\* C13: a job one of whose files its parser fails on never fails for it,
\* in full and in incremental mode; when the job completes, the files
\* stored are its other files.
C13_ParseErrorSkipsFile ==
    \A n \in 1..handled :
        (/\ Finished(n)
         /\ outcome[n] # "undeserializable"
         /\ \E p \in FilesToParse(MessageOf(n)) :
               parse_file_fails(p, MessageOf(n).tree.files[p]))
        => /\ outcome[n] # "Err:parse_file"
           /\ (outcome[n] = "Ok" /\ n = handled) =>
                 Range(PathsOf(last.in.parsed_files))
                 = {p \in FilesToParse(MessageOf(n)) :
                       ~parse_file_fails(p, MessageOf(n).tree.files[p])}

\* C14: popping a message that does not deserialize removes it from the
\* queue for good and changes neither the reports nor the graph, and the
\* worker is back at the point where it polls; such a message never has a
\* report or a stored graph.
C14_BadMessageDiscarded ==
    /\ [][(handled' = handled + 1 /\ ~queue[Len(queue)].valid) =>
            /\ queue' = SubSeq(queue, 1, Len(queue) - 1)
            /\ reports' = reports
            /\ graph' = graph /\ ncalls' = ncalls
            /\ pc' = "idle"
            /\ outcome'[handled'] = "undeserializable"]_vars
    /\ [](\A n \in 1..handled :
            outcome[n] = "undeserializable" =>
                /\ ReportsOf(n) = <<>>
                /\ n \notin stored)

\* a message that does not deserialize was popped, and the job popped after
\* it was stored and reported COMPLETED
C14_Witness ==
    /\ handled = 2
    /\ outcome[1] = "undeserializable"
    /\ outcome[2] = "Ok" /\ Finished(2) /\ 2 \in stored
    /\ queue = <<>>
    /\ \A i \in 1..Len(reports) : reports[i].n = 2

\* C15: once analyze_repository has returned for a job, whether with Ok or
\* with the error of cloning, checkout, parsing, analysis or persistence,
\* the clone directory of the job is not on disk.
C15_TempDirRemoved ==
    \A n \in 1..handled :
        (Finished(n) \/ (n = handled /\ pc \in {"report_completed", "report_failed"}))
        => n \notin tempdirs

\* process_job is working on a popped job
InFlight == pc \notin {"idle", "poll", "cleanup", "stopped"}

\* C16: when the flag is set while a job is in flight no further message is
\* popped; once the loop has exited the flag is set, every popped job has
\* had its terminal report and the temp-file cleanup has run; and once the
\* flag is set the loop eventually exits.
C16_GracefulShutdown ==
    /\ \A h \in 0..MaxQueue :
          []((shutdown /\ InFlight /\ handled = h) => [](handled = h))
    /\ [](pc = "stopped" =>
            /\ shutdown
            /\ tempdirs = {}
            /\ cur = NoMessage
            /\ \A n \in 1..handled :
                  outcome[n] # "undeserializable" =>
                      /\ ReportsOf(n) # <<>>
                      /\ Terminal(ReportsOf(n)[Len(ReportsOf(n))]))
    /\ shutdown ~> (pc = "stopped")

\* the loop exited after a job that was reported COMPLETED, with a message
\* still waiting in the queue
C16_Witness ==
    /\ pc = "stopped" /\ shutdown
    /\ handled = 1 /\ outcome[1] = "Ok" /\ 1 \in stored
    /\ queue # <<>>
    /\ ReportsOf(1)[Len(ReportsOf(1))].status = "COMPLETED"

(***************************************************************************)
(* The connection phase                                                    *)
(***************************************************************************)
Connectors == {conn.redis, conn.neo4j}

\* attempts that failed in a call: all of them but a successful last one
Failures(r) == IF r.result = "Ok" THEN r.attempt - 1 ELSE r.attempt

\* C17: each of connect_redis_with_retry and connect_neo4j_with_retry makes
\* at most max_retries attempts; Ok is returned by the attempt that
\* succeeds, after fewer than max_retries failures, and nothing is tried
\* after it; while fewer than max_retries attempts have failed the call has
\* not returned Err; Err is returned after exactly max_retries attempts,
\* all failed.
C17_AtMostMaxRetriesAttempts ==
    /\ [](\A r \in Connectors :
            /\ r.attempt <= r.max_retries
            /\ r.result = "Ok" => r.attempt >= 1 /\ Failures(r) < r.max_retries
            /\ r.result = "Err" => r.attempt = r.max_retries /\ Failures(r) = r.max_retries
            /\ Failures(r) < r.max_retries => r.result # "Err")
    /\ [][/\ conn.redis.result # "pending" => conn'.redis = conn.redis
          /\ conn.neo4j.result # "pending" => conn'.neo4j = conn.neo4j
          /\ \A c \in {"redis", "neo4j"} :
                conn'[c].attempt \in {conn[c].attempt, conn[c].attempt + 1}]_vars

\* redis connects at its third attempt, neo4j gives up after four
C17_Witness ==
    /\ conn.stage = "fatal"
    /\ conn.redis.max_retries = MainMaxRetries /\ conn.neo4j.max_retries = MainMaxRetries
    /\ conn.redis.result = "Ok" /\ conn.redis.attempt = 3
    /\ conn.neo4j.result = "Err" /\ conn.neo4j.attempt = MainMaxRetries

RECURSIVE SeqSum(_)
SeqSum(s) == IF s = <<>> THEN 0 ELSE Head(s) + SeqSum(Tail(s))

CallersOf(file) ==
    Range(file.functions) \cup UNION {Range(c.methods) : c \in Range(file.classes)}

DepEdges(edge_type) ==
    {i \in 1..Len(last.in.dep_graph.edges) :
        last.in.dep_graph.edges[i].edge_type = edge_type}

\* C19: in the dependency graph built from the parsed files of a job, for
\* every call name x of a function or method F of file f: when the symbol
\* table resolves x in the context of f to an entry E there is a CALLS edge
\* from Function(f, F) to Function(E.file_path, x); when x does not resolve,
\* no CALLS edge from Function(f, F) leads to a function named x.
C19_CallsEdgeIffResolved ==
    last.mode # "none" =>
    LET dep == last.in.dep_graph
        table == SymbolTable(last.in.parsed_files)
    IN \A file \in Range(last.in.parsed_files) :
          \A F \in CallersOf(file) :
             \A x \in Range(F.calls) :
                LET E == resolve_function(table, x, file.path)
                    from == NodeFunction(file.path, F.name)
                IN IF E # <<>>
                   THEN /\ \E i \in DepEdges("CALLS") :
                              /\ dep.edges[i].from = from
                              /\ dep.edges[i].to = NodeFunction(E[1].file_path, x)
                        /\ NodeFunction(E[1].file_path, x) \in dep.nodes
                   ELSE \A i \in DepEdges("CALLS") :
                           dep.edges[i].from = from => dep.edges[i].to.name # x

\* a job whose f calls g of the other file, f of its own file from a
\* method, and print, which no parsed file defines
C19_Witness ==
    /\ last.mode # "none"
    /\ \E i, j \in DepEdges("CALLS") :
          /\ last.in.dep_graph.edges[i].from = NodeFunction(PathA, "f")
          /\ last.in.dep_graph.edges[i].to = NodeFunction(PathB, "g")
          /\ last.in.dep_graph.edges[j].from = NodeFunction(PathA, "m")
          /\ last.in.dep_graph.edges[j].to = NodeFunction(PathA, "f")
    /\ \E file \in Range(last.in.parsed_files) :
          \E F \in CallersOf(file) :
             "print" \in Range(F.calls)
             /\ resolve_function(SymbolTable(last.in.parsed_files), "print", file.path) = <<>>

\* C20: for every inheritance entry of a class c of file f: the graph has
\* exactly one INHERITS edge from Class(f, c) for the entry; it leads to
\* Class(E.file_path, name) when the name resolves to a class entry E and to
\* Module(name) otherwise, a node of the graph in both cases; and it carries
\* the kind recorded in the entry.
C20_InheritsEdgePerEntry ==
    last.mode # "none" =>
    LET dep == last.in.dep_graph
        table == SymbolTable(last.in.parsed_files)
    IN \A file \in Range(last.in.parsed_files) :
          \A c \in Range(file.classes) :
             LET from == NodeClass(file.path, c.name)
                 out == {i \in DepEdges("INHERITS") : dep.edges[i].from = from}
             IN /\ Cardinality(out) = Len(c.inheritances)
                /\ \A h \in 1..Len(c.inheritances) :
                      LET entry == c.inheritances[h]
                          E == resolve_class(table, entry.name, file.path)
                          target == IF E # <<>> THEN NodeClass(E[1].file_path, entry.name)
                                    ELSE NodeModule(entry.name)
                          for == {i \in out : dep.edges[i].to.name = entry.name}
                      IN /\ Cardinality(for) = 1
                         /\ \A i \in for : /\ dep.edges[i].to = target
                                            /\ dep.edges[i].kind = entry.kind
                         /\ target \in dep.nodes

\* a job whose class K inherits from Base, defined in the other parsed file,
\* and from ABC, which no parsed file defines
C20_Witness ==
    /\ last.mode # "none"
    /\ \E i, j \in DepEdges("INHERITS") :
          /\ last.in.dep_graph.edges[i].from = NodeClass(PathA, "K")
          /\ last.in.dep_graph.edges[i].to = NodeClass(PathB, "Base")
          /\ last.in.dep_graph.edges[j].from = NodeClass(PathA, "K")
          /\ last.in.dep_graph.edges[j].to = NodeModule("ABC")
    /\ NodeModule("ABC") \in last.in.dep_graph.nodes

(***************************************************************************)
(* The symbol table                                                        *)
(***************************************************************************)
\* whether a parsed file puts an entry under name: in table.functions a
\* top-level function, or a method as Class.method and as method; in
\* table.classes a class
Indexes(file, fn, name) ==
    IF fn = "resolve_class"
    THEN \E c \in Range(file.classes) : c.name = name
    ELSE \/ \E f \in Range(file.functions) : f.name = name
         \/ \E c \in Range(file.classes) :
               \E m \in Range(c.methods) : name \in {m.name, c.name \o "." \o m.name}

\* the files of the applied lookup that index its name, by position
IndexedIn == {i \in 1..Len(applied.parsed_files) :
                 Indexes(applied.parsed_files[i], applied.fn, applied.name)}

\* C21: resolve_function and resolve_class return nothing iff no parsed
\* file indexes the name; otherwise they return one entry, of current_file
\* when current_file indexes the name, and else of the first file in input
\* order that indexes it.
C21_ResolvePrefersCurrentFile ==
    applied.fn \in {"resolve_function", "resolve_class"} =>
       /\ applied.val = <<>> <=> IndexedIn = {}
       /\ IndexedIn # {} =>
             /\ Len(applied.val) = 1
             /\ applied.val[1].file_path =
                   IF \E i \in IndexedIn : applied.parsed_files[i].path = applied.current_file
                   THEN applied.current_file
                   ELSE applied.parsed_files[CHOOSE i \in IndexedIn :
                                                \A j \in IndexedIn : i <= j].path

\* f is a method of K in the first file and a function of the second, and
\* is looked up from the second
C21_Witness ==
    /\ applied.fn = "resolve_function"
    /\ applied.name = "f"
    /\ IndexedIn = {1, 2}
    /\ applied.parsed_files[1].functions = <<>>
    /\ applied.current_file = applied.parsed_files[2].path
    /\ applied.val # <<>>
    /\ applied.val[1].file_path = applied.current_file

(***************************************************************************)
(* The dependency graph of a set of parsed files                           *)
(***************************************************************************)
\* the Class nodes with a CONTAINS edge to a node
ContainedBy(dep, node) ==
    {dep.edges[i].from : i \in {j \in 1..Len(dep.edges) :
                                   /\ dep.edges[j].edge_type = "CONTAINS"
                                   /\ dep.edges[j].to = node}}

\* C22: in the dependency graph of a set of parsed files the Function node
\* of every method has the file path of its class and is the target of
\* CONTAINS edges from exactly one Class node.
C22_MethodContainedByOneClass ==
    applied.fn = "from_parsed_files" =>
       \A file \in Range(applied.parsed_files) :
          \A c \in Range(file.classes) :
             \A m \in Range(c.methods) :
                LET node == NodeFunction(file.path, m.name)
                IN /\ node \in applied.val.nodes
                   /\ node.file = NodeClass(file.path, c.name).file
                   /\ ContainedBy(applied.val, node) = {NodeClass(file.path, c.name)}

(***************************************************************************)
(* Library nodes                                                           *)
(***************************************************************************)
Libraries(g) == {n \in g.nodes : n.label = "Library"}

HasVersion(n) == n.p.version \notin {"", Null}

\* the version the declarations of a job give a library: that of the last
\* declaration that carries one, "" when none does
DeclaredVersion(libs, name) ==
    LET idx == {i \in 1..Len(libs) : libs[i].name = name /\ libs[i].version # ""}
    IN IF idx = {} THEN "" ELSE libs[CHOOSE i \in idx : \A j \in idx : j <= i].version

\* C23: the committed graph holds at most one Library node per repo_id and
\* library name, and a Library node that has a version keeps having one: a
\* call leaves the node in place with the version it had, unless the job
\* declares a version for the library, which then becomes the node's.
C23_OneLibraryVersionKept ==
    /\ [](\A a, b \in Libraries(graph) :
             a.p.name = b.p.name /\ a.p.repo_id = b.p.repo_id => a = b)
    /\ [][\A a \in Libraries(graph) :
             HasVersion(a) =>
                \E b \in Libraries(graph') :
                   /\ b.p.name = a.p.name /\ b.p.repo_id = a.p.repo_id
                   /\ b.p.version =
                        IF /\ last'.result = "Ok"
                           /\ last'.in.repo_id = a.p.repo_id
                           /\ DeclaredVersion(last'.in.libs, a.p.name) # ""
                        THEN DeclaredVersion(last'.in.libs, a.p.name)
                        ELSE a.p.version]_vars

\* requests 2.0 was stored by one job, and a later committed job of the
\* same repo_id declared requests without a version
C23_Witness ==
    /\ ncalls = 2
    /\ last.result = "Ok"
    /\ \E d \in Range(last.in.libs) : d.name = "requests" /\ d.version = ""
    /\ \E a \in Libraries(graph) :
          /\ a.p.name = "requests" /\ a.p.repo_id = last.in.repo_id
          /\ a.p.version = "2.0"
          /\ a.p.job_id = last.in.job_id

(***************************************************************************)
(* Scope and stamp of the nodes a call writes                              *)
(***************************************************************************)
EntityLabels ==
    {"File", "Class", "Function", "Module", "Boundary", "Library", "Table", "Service",
     "Endpoint", "RpcService", "MessageQueue", "ComposeService"}

\* the nodes a committed call created or gave new properties
Written(labels) ==
    {n \in last.after.nodes \ last.before.nodes : n.label \in labels}

Stamped(n) ==
    /\ "repo_id" \in DOMAIN n.p /\ n.p.repo_id = last.in.repo_id
    /\ "job_id" \in DOMAIN n.p /\ n.p.job_id = last.in.job_id

\* C24: after a call commits, every File, Class, Function, Module,
\* Boundary, Library, Table, Service, Endpoint, RpcService, MessageQueue
\* and ComposeService node it wrote carries the repo_id and the job_id of
\* its job.
C24_WrittenNodesStamped ==
    last.result = "Ok" => \A n \in Written(EntityLabels) : Stamped(n)

(***************************************************************************)
(* The graph patch of an incremental job                                   *)
(***************************************************************************)
PatchType(kind) ==
    CASE kind = "File" -> "file" [] kind = "Class" -> "class"
      [] kind = "Function" -> "function" [] kind = "Module" -> "module"

\* the entries of the patch's node list for a node of the dependency graph
PatchEntries(patch, n) ==
    {i \in 1..Len(patch.nodes) :
        /\ patch.nodes[i].id = node_id_to_string(n)
        /\ patch.nodes[i].node_type = PatchType(n.kind)}

\* C25: the node list of the graph patch has exactly one entry for every
\* File, Class, Function (top-level function or method) and Module node of
\* the dependency graph and no other entry, and its edge list has one entry
\* for every edge of that graph.
C25_PatchListsGraph ==
    applied.fn = "build_graph_patch" =>
       LET patch == applied.val
           dep == applied.dep_graph
       IN /\ \A n \in dep.nodes : Cardinality(PatchEntries(patch, n)) = 1
          /\ \A i \in 1..Len(patch.nodes) : \E n \in dep.nodes : i \in PatchEntries(patch, n)
          /\ Len(patch.edges) = Len(dep.edges)
          /\ \A i \in 1..Len(dep.edges) :
                /\ patch.edges[i].source = node_id_to_string(dep.edges[i].from)
                /\ patch.edges[i].target = node_id_to_string(dep.edges[i].to)
                /\ patch.edges[i].edge_type = to_lowercase(dep.edges[i].edge_type)

(***************************************************************************)
(* Qualified ids                                                           *)
(***************************************************************************)
\* C26: the id of a Class or Function row is its file path, "::" and its
\* name, and two rows that differ in file path or in name have different
\* ids.
C26_QualifiedIdLaw ==
    applied.fn = "node_to_map" =>
       /\ \A r \in {applied.a, applied.b} : r.id = r.file \o "::" \o r.name
       /\ << applied.a.file, applied.a.name >> # << applied.b.file, applied.b.name >>
             => applied.a.id # applied.b.id

\* the same name in a.py and in a file called a.py::b.py
C26_Witness ==
    /\ applied.fn = "node_to_map"
    /\ applied.kind = "Function"
    /\ applied.a.file = "a.py::b.py" /\ applied.b.file = "a.py"
    /\ applied.a.name = "f" /\ applied.b.name = "f"
    /\ applied.a.id = "a.py::b.py::f" /\ applied.b.id = "a.py::f"

(***************************************************************************)
(* The compose scan                                                        *)
(***************************************************************************)
\* positions of the lines that open a service: indent 2, ending with ':',
\* after the services: line
ServiceLines(lines) ==
    {i \in 1..Len(lines) :
        /\ lines[i].indent = 2 /\ lines[i].trimmed \in KeyTexts
        /\ \E j \in 1..(i - 1) : lines[j].trimmed = "services:"}

\* the key a line lies under: the last line before it that ends with ':'
KeyAbove(lines, i) ==
    LET keys == {j \in 1..(i - 1) : lines[j].trimmed \in KeyTexts}
    IN IF keys = {} THEN 0 ELSE CHOOSE j \in keys : \A k \in keys : k <= j

\* the list items of the service opened at line s that lie under its ports:
\* key
PortItems(lines, s) ==
    {i \in (s + 1)..Len(lines) :
        /\ lines[i].trimmed \in ItemTexts /\ lines[i].indent >= 6
        /\ \A j \in ServiceLines(lines) : ~(s < j /\ j < i)
        /\ KeyAbove(lines, i) > s
        /\ lines[KeyAbove(lines, i)].trimmed = "ports:"}

\* C27: parse_docker_compose returns one service per line at indent 2 that
\* ends with ':' after the services: line, in order, and the ports of a
\* service are the list items at indent 6 or more under its ports: key, in
\* order, and no list item under another key.
C27_PortsOnlyUnderPortsKey ==
    applied.fn = "parse_docker_compose" =>
       LET lines == applied.lines
           opened == ServiceLines(lines)
           nth(k) == CHOOSE i \in opened : Cardinality({j \in opened : j < i}) = k - 1
       IN /\ Len(applied.val) = Cardinality(opened)
          /\ \A k \in 1..Len(applied.val) :
                LET items == PortItems(lines, nth(k))
                IN /\ applied.val[k].name = service_name(lines[nth(k)].trimmed)
                   /\ Len(applied.val[k].ports) = Cardinality(items)
                   /\ \A i \in items :
                         applied.val[k].ports[1 + Cardinality({j \in items : j < i})]
                            = port_string(lines[i].trimmed)

\* the reports of the n-th popped message that tell of a persisted graph
PersistedReports(rs, n) ==
    {i \in 1..Len(rs) : rs[i].n = n /\ (rs[i].progress = 90 \/ rs[i].status = "COMPLETED")}

\* C28: progress 90 and COMPLETED are reported for a job only once the
\* persistor has returned Ok for it, which it does only after txn.commit()
\* succeeded, and the step that records the commit has not reported them
\* yet; a job whose persistence failed never gets a 90 or COMPLETED report,
\* and when process_job has returned for it its last report is FAILED.
C28_ReportAfterCommit ==
    /\ [](\A n \in 1..handled :
             /\ PersistedReports(reports, n) # {} => n \in stored
             /\ outcome[n] = "Err:persistence" =>
                   /\ n \notin stored
                   /\ PersistedReports(reports, n) = {}
                   /\ Finished(n) =>
                         /\ ReportsOf(n) # <<>>
                         /\ ReportsOf(n)[Len(ReportsOf(n))].status = "FAILED"
                         /\ ReportsOf(n)[Len(ReportsOf(n))].error = "Err:persistence")
    /\ [][stored' # stored =>
             /\ stored' = stored \cup {handled}
             /\ last'.result = "Ok" /\ last'.txn = "committed"
             /\ graph' = last'.after
             /\ PersistedReports(reports', handled) = {}]_vars

\* one job was reported 90 and COMPLETED after its commit, and process_job
\* has returned for another whose persistence failed
C28_Witness ==
    \E n, m \in 1..handled :
        /\ n \in stored /\ Finished(n)
        /\ \E i \in PersistedReports(reports, n) : reports[i].progress = 90
        /\ \E i \in PersistedReports(reports, n) : reports[i].status = "COMPLETED"
        /\ outcome[m] = "Err:persistence" /\ Finished(m)
        /\ last.result = "Err"

(***************************************************************************)
(* An incremental ingest of an unchanged file after a full ingest (Spec)   *)
(***************************************************************************)
\* the file a File, Class or Function node belongs to
FileOfNode(n) ==
    IF n.label = "File" THEN n.p.path
    ELSE IF n.label \in {"Class", "Function"} THEN n.p.file
    ELSE Null

\* the CALLS, INHERITS and DEPENDS_ON relationships of the repo that join a
\* node of the file at path to a File, Class or Function node of another
\* file, as triples of type, start and end
CrossFileRels(g, repo_id, path) ==
    { << r.type, r.from, r.to >> :
        r \in { e \in g.edges :
                  /\ e.type \in {"CALLS", "INHERITS", "DEPENDS_ON"}
                  /\ \E a, b \in CodeNodes(g, repo_id) :
                        /\ Ref(a) = e.from /\ Ref(b) = e.to
                        /\ FileOfNode(a) # FileOfNode(b)
                        /\ path \in {FileOfNode(a), FileOfNode(b)} } }

\* the call made in this step is a committed incremental ingest of the one
\* changed file at path, on the clone (same manifest, same history) and with
\* the parse of the committed full ingest before it, which was the first
\* call on the database
ReingestsUnchanged(path) ==
    /\ ncalls = 1 /\ last.mode = "full" /\ last.result = "Ok"
    /\ last'.mode = "incremental" /\ last'.result = "Ok"
    /\ last'.in.repo_id = last.in.repo_id
    /\ last'.in.libs = last.in.libs /\ last'.in.git = last.in.git
    /\ last'.in.changed_files = << path >> /\ last'.in.removed_files = <<>>
    /\ Len(last'.in.parsed_files) = 1
    /\ last'.in.parsed_files[1] \in Range(last.in.parsed_files)
    /\ last'.in.parsed_files[1].path = path

\* C29: an incremental ingest of changed_files = [p] with p unchanged,
\* made after a full ingest of the repository, keeps every CALLS, INHERITS
\* and DEPENDS_ON relationship between a node of p and a node of another
\* file that the full ingest had stored.
C29_ReingestKeepsCrossFileRels ==
    [][\A path \in Paths :
          ReingestsUnchanged(path) =>
             CrossFileRels(graph, last.in.repo_id, path)
                \subseteq {<< r.type, r.from, r.to >> : r \in graph'.edges}]_vars

(***************************************************************************)
(* Boundary nodes and their members (Spec)                                 *)
(***************************************************************************)
\* the File nodes of the boundary's repo with a BELONGS_TO relationship to it
MembersOf(g, b) ==
    { f \in g.nodes :
        /\ f.label = "File" /\ f.p.repo_id = b.p.repo_id
        /\ \E r \in g.edges : r.type = "BELONGS_TO" /\ r.from = Ref(f) /\ r.to = Ref(b) }

\* every job committed to the database was a job of the repo: each
\* committed call leaves its Job node
OnlyJobsOf(g, repo_id) == \A n \in g.nodes : n.label = "Job" => n.p.repo_id = repo_id

\* C30: when the committed graph is the work of full and incremental
\* ingests of one repo_id, the file_count of every logical or architectural
\* Boundary node is the number of File nodes of the repo that have a
\* BELONGS_TO relationship to it.
C30_FileCountIsMembers ==
    \A b \in graph.nodes :
        (/\ b.label = "Boundary" /\ b.p.type \in {"logical", "architectural"}
         /\ OnlyJobsOf(graph, b.p.repo_id)) =>
            b.p.file_count = Cardinality(MembersOf(graph, b))

====
